---- MODULE Spec2Model ----
(***************************************************************************)
(* CODE_WRITER: the English-to-code translation pipeline                   *)
(*   preprocess -> tokenize -> parse -> generate                           *)
(* Texts are TLA+ strings; every step is computed character by character   *)
(* or word by word as the JavaScript source computes it.                   *)
(***************************************************************************)
EXTENDS Integers, Sequences, FiniteSets, TLC

VARIABLES rawInput, lang, pc, cleaned, renormalized, tokens, parsed, code,
          lineResult, progResult, programNodes

\* improveGrammar: the key of the environment, the text passed, the position in
\* the function, the index of the model being tried, the last error, the
\* requests sent, what they settled with, and the promise returned
VARIABLES apiKey, grammarText, phase, attempt, lastError, calls, replies, promise

translatorVars == <<rawInput, lang, pc, cleaned, renormalized, tokens, parsed, code,
                    lineResult, progResult, programNodes>>

grammarVars == <<apiKey, grammarText, phase, attempt, lastError, calls, replies, promise>>

vars == <<translatorVars, grammarVars>>

-----------------------------------------------------------------------------
(* Bounds of the explored input space *)

MaxWords == 2

MaxLines == 3

MaxBody == 2

-----------------------------------------------------------------------------
(* JavaScript values: null, and a nullable field holding a string *)

None == <<>>

Some(v) == <<v>>

NoMatch == [type |-> "null"]

-----------------------------------------------------------------------------
(* String primitives (String.prototype and RegExp character classes) *)

Ch(s, i) == SubSeq(s, i, i)

UpperChars == "ABCDEFGHIJKLMNOPQRSTUVWXYZ"

LowerChars == "abcdefghijklmnopqrstuvwxyz"

DigitChars == "0123456789"

CharsOf(s) == {Ch(s, i) : i \in 1..Len(s)}

isUpper(c) == c \in CharsOf(UpperChars)

isAlpha(c) == c \in CharsOf(UpperChars) \cup CharsOf(LowerChars)

isDigit(c) == c \in CharsOf(DigitChars)

\* \w of a JavaScript regular expression: [A-Za-z0-9_]
isWordChar(c) == isAlpha(c) \/ isDigit(c) \/ c = "_"

\* \s of a JavaScript regular expression (the ASCII part)
isSpace(c) == c \in {" ", "\t", "\n", "\r", "\f"}

\* characters that "." of a regular expression does not match
isLineTerminator(c) == c \in {"\n", "\r"}

isQuote(c) == c \in {"\"", "'"}

toLowerChar(c) ==
    IF isUpper(c)
    THEN Ch(LowerChars, CHOOSE i \in 1..26 : Ch(UpperChars, i) = c)
    ELSE c

\* the recursions over a text halve it, so their depth stays logarithmic
RECURSIVE toLowerCase(_)
toLowerCase(s) ==
    IF s = "" THEN ""
    ELSE IF Len(s) = 1 THEN toLowerChar(s)
    ELSE LET half == Len(s) \div 2
         IN  toLowerCase(SubSeq(s, 1, half)) \o toLowerCase(SubSeq(s, half + 1, Len(s)))

Min(S) == CHOOSE x \in S : \A y \in S : x <= y

Max(S) == CHOOSE x \in S : \A y \in S : x >= y

\* the k-th smallest element of a set of numbers
Nth(S, k) == CHOOSE x \in S : Cardinality({y \in S : y <= x}) = k

nonSpaceAt(s) == {i \in 1..Len(s) : ~isSpace(Ch(s, i))}

trim(s) ==
    IF nonSpaceAt(s) = {} THEN ""
    ELSE SubSeq(s, Min(nonSpaceAt(s)), Max(nonSpaceAt(s)))

\* Array.prototype.join
RECURSIVE join(_, _)
join(ws, sep) ==
    IF Len(ws) = 0 THEN ""
    ELSE IF Len(ws) = 1 THEN ws[1]
    ELSE LET half == Len(ws) \div 2
         IN  join(SubSeq(ws, 1, half), sep) \o sep \o join(SubSeq(ws, half + 1, Len(ws)), sep)

\* String.prototype.split with a one-character separator: "" gives <<"">>
split(s, sep) ==
    LET at == {i \in 1..Len(s) : Ch(s, i) = sep}
        n  == Cardinality(at)
    IN  [k \in 1..(n + 1) |->
            SubSeq(s, IF k = 1 THEN 1 ELSE Nth(at, k - 1) + 1,
                      IF k = n + 1 THEN Len(s) ELSE Nth(at, k) - 1)]

\* s.trim().split(/\s+/) for a text s whose trim is not empty: the maximal
\* runs of characters that are not white space
splitSpaces(s) ==
    LET starts == {i \in nonSpaceAt(s) : i = 1 \/ isSpace(Ch(s, i - 1))}
        endOf(i) == Min({j \in i..Len(s) : j = Len(s) \/ isSpace(Ch(s, j + 1))})
    IN  [k \in 1..Cardinality(starts) |-> SubSeq(s, Nth(starts, k), endOf(Nth(starts, k)))]

\* index of the first occurrence of pat in s at or after position i, 0 if none
indexOf(s, pat, i) ==
    LET at == {k \in i..(Len(s) - Len(pat) + 1) : SubSeq(s, k, k + Len(pat) - 1) = pat}
    IN  IF at = {} THEN 0 ELSE Min(at)

contains(s, pat) == indexOf(s, pat, 1) > 0

\* String.prototype.replace(pattern: string, replacement): first occurrence
\* only (the texts explored contain no "$", so no replacement pattern applies)
replaceFirst(s, pat, rep) ==
    LET k == indexOf(s, pat, 1)
    IN  IF k = 0 THEN s
        ELSE SubSeq(s, 1, k - 1) \o rep \o SubSeq(s, k + Len(pat), Len(s))

-----------------------------------------------------------------------------
(* synonyms.js: the synonym dictionary and the filler words *)

\* the entries of the object literal, in source order
SYNONYM_ENTRIES == <<
    <<"make", "create">>, <<"declare", "create">>, <<"define", "create">>, <<"initialize", "create">>,
    <<"init", "create">>, <<"new", "create">>, <<"let", "create">>, <<"var", "create">>,
    <<"assign", "set">>, <<"update", "set">>, <<"change", "set">>, <<"modify", "set">>,
    <<"put", "set">>, <<"equal", "value">>, <<"equals", "value">>, <<"as", "value">>,
    <<"with", "value">>, <<"of", "value">>, <<"be", "value">>, <<"display", "print">>,
    <<"show", "print">>, <<"output", "print">>, <<"write", "print">>, <<"log", "print">>,
    <<"echo", "print">>, <<"say", "print">>, <<"read", "input">>, <<"get", "input">>,
    <<"ask", "input">>, <<"prompt", "input">>, <<"accept", "input">>, <<"receive", "input">>,
    <<"plus", "add">>, <<"sum", "add">>, <<"subtract", "subtract">>, <<"minus", "subtract">>,
    <<"difference", "subtract">>, <<"multiply", "multiply">>, <<"times", "multiply">>, <<"product", "multiply">>,
    <<"divide", "divide">>, <<"over", "divide">>, <<"quotient", "divide">>, <<"modulo", "modulus">>,
    <<"mod", "modulus">>, <<"remainder", "modulus">>, <<"bigger", "greater">>, <<"more", "greater">>,
    <<"above", "greater">>, <<"larger", "greater">>, <<"exceeds", "greater">>, <<"smaller", "less">>,
    <<"below", "less">>, <<"fewer", "less">>, <<"lower", "less">>, <<"under", "less">>,
    <<"same", "equal_to">>, <<"identical", "equal_to">>, <<"matches", "equal_to">>, <<"not", "not">>,
    <<"different", "not_equal">>, <<"unequal", "not_equal">>, <<"also", "and">>, <<"both", "and">>,
    <<"either", "or">>, <<"otherwise", "else">>, <<"alternatively", "else">>, <<"repeat", "while">>,
    <<"loop", "while">>, <<"iterate", "for">>, <<"increase", "increment">>, <<"raise", "increment">>,
    <<"grow", "increment">>, <<"decrease", "decrement">>, <<"reduce", "decrement">>, <<"shrink", "decrement">>,
    <<"lower", "decrement">>, <<"function", "function">>, <<"func", "function">>, <<"method", "function">>,
    <<"procedure", "function">>, <<"routine", "function">>, <<"subroutine", "function">>, <<"invoke", "call">>,
    <<"execute", "call">>, <<"run", "call">>, <<"give", "return">>, <<"send", "return">>,
    <<"respond", "return">>, <<"array", "list">>, <<"collection", "list">>, <<"push", "append">>,
    <<"insert", "append">>, <<"note", "comment">>, <<"remark", "comment">>, <<"save", "store">>,
    <<"keep", "store">>, <<"place", "store">>, <<"put", "store">>, <<"to", "to">>,
    <<"into", "to">>, <<"in", "in">>, <<"from", "from">>, <<"than", "than">>,
    <<"then", "then">>, <<"do", "do">>, <<"does", "do">>
>>

\* a key written twice in an object literal keeps the value written last
\* word in table, for a table given as its entries in source order
hasKey(entries, word) == \E i \in DOMAIN entries : entries[i][1] = word

\* table[word]: of two entries with the same key the later one holds
lastValue(entries, word) == entries[Max({i \in DOMAIN entries : entries[i][1] = word})][2]

hasSynonym(word) == hasKey(SYNONYM_ENTRIES, word)

SYNONYMS(word) == lastValue(SYNONYM_ENTRIES, word)

FILLER_WORDS == {
    "please", "the", "a", "an", "is", "are", "was", "were", "it", "its",
    "this", "that", "these", "those", "my", "your", "his", "her", "our",
    "their", "should", "would", "could", "can", "will", "shall", "may",
    "might", "must", "now", "just", "also", "so", "very", "really",
    "actually", "basically", "simply", "named", "called" }

-----------------------------------------------------------------------------
(* preprocessor: preprocess, preprocessLines *)

\* /(["'])(?:(?=(\\?))\2.)*?\1/ from the opening quote q: position of the
\* closing quote, scanning from j; a backslash takes the next character with
\* it; 0 when the literal is not closed. The scan jumps to the next character
\* that matters: the quote, a backslash or a line terminator.
RECURSIVE closingQuote(_, _, _)
closingQuote(s, j, q) ==
    LET stops == {k \in j..Len(s) :
                     Ch(s, k) = q \/ Ch(s, k) = "\\" \/ isLineTerminator(Ch(s, k))}
    IN  IF stops = {} THEN 0
        ELSE LET k == Min(stops)
             IN  IF Ch(s, k) = q THEN k
                 ELSE IF Ch(s, k) = "\\"
                      THEN IF k + 1 > Len(s) \/ isLineTerminator(Ch(s, k + 1)) THEN 0
                           ELSE closingQuote(s, k + 2, q)
                 ELSE 0

placeholder(n) == "__STRING_" \o ToString(n) \o "__"

restoreKey(n) == "__string_" \o ToString(n) \o "__"

\* step 2: every quoted literal is replaced by a numbered placeholder; the
\* scan resumes after a literal, or after a quote that opens no literal
RECURSIVE extractLiterals(_, _, _)
extractLiterals(s, i, acc) ==
    LET quotes == {k \in i..Len(s) : isQuote(Ch(s, k))}
    IN  IF quotes = {}
        THEN [text |-> acc.text \o SubSeq(s, i, Len(s)), literals |-> acc.literals]
        ELSE LET open  == Min(quotes)
                 close == closingQuote(s, open + 1, Ch(s, open))
             IN  IF close > 0
                 THEN extractLiterals(s, close + 1,
                         [text |-> acc.text \o SubSeq(s, i, open - 1)
                                   \o placeholder(Len(acc.literals)),
                          literals |-> Append(acc.literals, SubSeq(s, open + 1, close - 1))])
                 ELSE extractLiterals(s, open + 1,
                         [text |-> acc.text \o SubSeq(s, i, open),
                          literals |-> acc.literals])

\* step 3: /[^\w\s_]/g -> " "
RECURSIVE stripPunctuation(_)
stripPunctuation(s) ==
    IF s = "" THEN ""
    ELSE IF Len(s) = 1 THEN (IF isWordChar(s) \/ isSpace(s) THEN s ELSE " ")
    ELSE LET half == Len(s) \div 2
         IN  stripPunctuation(SubSeq(s, 1, half))
             \o stripPunctuation(SubSeq(s, half + 1, Len(s)))

\* step 4: /\s+/g -> " ": a run of white space gives one space, at its start
RECURSIVE collapseRange(_, _, _)
collapseRange(s, lo, hi) ==
    IF lo > hi THEN ""
    ELSE IF lo = hi
         THEN IF ~isSpace(Ch(s, lo)) THEN Ch(s, lo)
              ELSE IF lo = 1 \/ ~isSpace(Ch(s, lo - 1)) THEN " " ELSE ""
    ELSE LET mid == (lo + hi) \div 2
         IN  collapseRange(s, lo, mid) \o collapseRange(s, mid + 1, hi)

collapseSpaces(s) == collapseRange(s, 1, Len(s))

\* every filler word is deleted, the synonym keys among them included
keepWord_dropEveryFiller(word) == word \notin FILLER_WORDS

\* step 6: the filter callback
keepWord(word) ==
    IF hasSynonym(word) THEN TRUE ELSE word \notin FILLER_WORDS

\* step 7: the map callback
mapWord(word) == IF hasSynonym(word) THEN SYNONYMS(word) ELSE word

mapWords(ws) == [i \in 1..Len(ws) |-> mapWord(ws[i])]

\* step 8: literal number index goes back in, as "<literal>"
RECURSIVE restoreLiterals(_, _, _)
restoreLiterals(result, literals, index) ==
    IF index >= Len(literals) THEN result
    ELSE restoreLiterals(
             replaceFirst(result, restoreKey(index), "\"" \o literals[index + 1] \o "\""),
             literals, index + 1)

\* steps 3 to 7 on the text that step 2 leaves
normalizeWords(text) ==
    join(mapWords(SelectSeq(split(trim(collapseSpaces(stripPunctuation(text))), " "),
                            keepWord)), " ")

\* steps 3 to 8 on what step 2 extracted
normalizeExtracted(extracted) ==
    restoreLiterals(normalizeWords(extracted.text), extracted.literals, 0)

preprocess(input) ==
    IF input = "" THEN ""
    ELSE normalizeExtracted(extractLiterals(trim(toLowerCase(input)), 1,
                                            [text |-> "", literals |-> <<>>]))

nonBlank(line) == Len(line) > 0

trimLines(ls) == [i \in 1..Len(ls) |-> trim(ls[i])]

preprocessEach(ls) == [i \in 1..Len(ls) |-> preprocess(ls[i])]

\* lines that normalize to the empty string are discarded as well
preprocessLines_dropEmptied(input) ==
    IF input = "" THEN <<>>
    ELSE SelectSeq(preprocessEach(SelectSeq(trimLines(split(input, "\n")), nonBlank)), nonBlank)

preprocessLines(input) ==
    IF input = "" THEN <<>>
    ELSE preprocessEach(SelectSeq(trimLines(split(input, "\n")), nonBlank))

-----------------------------------------------------------------------------
(* tokenizer: KEYWORDS, isNumber, isString, tokenize *)

KEYWORDS == {
    "create", "set", "print", "input", "add", "subtract", "multiply", "divide", "modulus",
    "increment", "decrement", "if", "else", "while", "for", "do", "then",
    "define", "function", "call", "return", "append", "comment",
    "greater", "less", "equal_to", "not", "not_equal",
    "variable", "list", "array",
    "value", "to", "in", "from", "than", "store", "and", "or",
    "end", "by", "with", "parameter", "parameters", "result",
    "true", "false" }

TokenType == {"KEYWORD", "IDENTIFIER", "NUMBER", "STRING", "BOOLEAN", "UNKNOWN"}

allDigits(s) == s # "" /\ \A i \in 1..Len(s) : isDigit(Ch(s, i))

\* /^\d+(\.\d+)?$/
isUnsignedNumber(s) ==
    \/ allDigits(s)
    \/ \E k \in 2..(Len(s) - 1) :
          /\ Ch(s, k) = "."
          /\ allDigits(SubSeq(s, 1, k - 1))
          /\ allDigits(SubSeq(s, k + 1, Len(s)))

\* /^-?\d+(\.\d+)?$/
isNumber(str) ==
    \/ isUnsignedNumber(str)
    \/ (str # "" /\ Head(str) = "-" /\ isUnsignedNumber(Tail(str)))

noLineTerminator(s) == \A i \in 1..Len(s) : ~isLineTerminator(Ch(s, i))

\* /^".*"$/ or /^'.*'$/
isString(str) ==
    /\ Len(str) >= 2
    /\ noLineTerminator(str)
    /\ \/ (Head(str) = "\"" /\ Ch(str, Len(str)) = "\"")
       \/ (Head(str) = "'" /\ Ch(str, Len(str)) = "'")

\* /^[a-z_][a-z0-9_]*$/i
isIdentifierShape(word) ==
    /\ word # ""
    /\ (isAlpha(Head(word)) \/ Head(word) = "_")
    /\ \A i \in 2..Len(word) : isWordChar(Ch(word, i))

\* the words of current when current.trim() is not empty
flush(current) == IF trim(current) # "" THEN splitSpaces(trim(current)) ELSE <<>>

\* the first loop of tokenize, from position i outside a quote: the text up
\* to the next quote is split into words; a quote runs to the next occurrence
\* of the same quote character and is one part; an unclosed quote stays in
\* current with the rest of the input and is split into words at the end
RECURSIVE splitParts(_, _, _)
splitParts(input, i, parts) ==
    LET quotes == {k \in i..Len(input) : isQuote(Ch(input, k))}
    IN  IF quotes = {} THEN parts \o flush(SubSeq(input, i, Len(input)))
        ELSE LET open   == Min(quotes)
                 before == parts \o flush(SubSeq(input, i, open - 1))
                 closes == {k \in (open + 1)..Len(input) : Ch(input, k) = Ch(input, open)}
             IN  IF closes = {} THEN before \o flush(SubSeq(input, open, Len(input)))
                 ELSE splitParts(input, Min(closes) + 1,
                                 Append(before, SubSeq(input, open, Min(closes))))

\* the Keyword Set is consulted before the boolean literals
classify_keywordFirst(word) ==
    IF isString(word) THEN [type |-> "STRING", value |-> SubSeq(word, 2, Len(word) - 1)]
    ELSE IF isNumber(word) THEN [type |-> "NUMBER", value |-> word]
    ELSE IF word \in KEYWORDS THEN [type |-> "KEYWORD", value |-> word]
    ELSE IF word = "true" \/ word = "false" THEN [type |-> "BOOLEAN", value |-> word]
    ELSE IF isIdentifierShape(word) THEN [type |-> "IDENTIFIER", value |-> word]
    ELSE [type |-> "UNKNOWN", value |-> word]

\* the second loop of tokenize: the class of one word
classify(word) ==
    IF isString(word) THEN [type |-> "STRING", value |-> SubSeq(word, 2, Len(word) - 1)]
    ELSE IF isNumber(word) THEN [type |-> "NUMBER", value |-> word]
    ELSE IF word = "true" \/ word = "false" THEN [type |-> "BOOLEAN", value |-> word]
    ELSE IF word \in KEYWORDS THEN [type |-> "KEYWORD", value |-> word]
    ELSE IF isIdentifierShape(word) THEN [type |-> "IDENTIFIER", value |-> word]
    ELSE [type |-> "UNKNOWN", value |-> word]

isWord(word) == word # ""

classifyAll(parts) == [i \in 1..Len(parts) |-> classify(parts[i])]

tokenize(input) ==
    IF input = "" THEN <<>>
    ELSE classifyAll(SelectSeq(splitParts(input, 1, <<>>), isWord))

-----------------------------------------------------------------------------
(* grammar: helpers *)

\* tokens[k] with the 0-based index of the source; undefined past the end
Undefined == [type |-> "undefined", value |-> ""]

At(toks, k) == IF k >= 0 /\ k < Len(toks) THEN toks[k + 1] ELSE Undefined

\* Array.prototype.slice
slice(toks, from, to) == SubSeq(toks, from + 1, to)

sliceFrom(toks, from) == SubSeq(toks, from + 1, Len(toks))

isKw(token, value) == token.type = "KEYWORD" /\ token.value = value

isId(token) == token.type = "IDENTIFIER"

isValue(token) == token.type \in {"NUMBER", "STRING", "IDENTIFIER", "BOOLEAN"}

val(token) ==
    IF token.type = "STRING" THEN "\"" \o token.value \o "\"" ELSE token.value

isValueToken(token) == isValue(token)

valAll(toks) == [i \in 1..Len(toks) |-> val(toks[i])]

\* the loops that collect val(t) of every value token from startIdx on
valuesFrom(toks, startIdx) == valAll(SelectSeq(sliceFrom(toks, startIdx), isValueToken))

tokenValues(toks) == [i \in 1..Len(toks) |-> toks[i].value]

-----------------------------------------------------------------------------
(* grammar: parseCondition *)

NoCondition == [ok |-> FALSE]

\* the operator read at index i, and the index after it; "" when tokens[i]
\* starts no comparison
comparisonAt(toks, i) ==
    IF isKw(At(toks, i), "not") /\ isKw(At(toks, i + 1), "equal_to")
        THEN [operator |-> "not_equal", next |-> i + 2]
    ELSE IF isKw(At(toks, i), "not_equal")
        THEN [operator |-> "not_equal",
              next |-> IF isKw(At(toks, i + 1), "to") THEN i + 2 ELSE i + 1]
    ELSE IF isKw(At(toks, i), "greater")
        THEN [operator |-> "greater",
              next |-> IF isKw(At(toks, i + 1), "than") THEN i + 2 ELSE i + 1]
    ELSE IF isKw(At(toks, i), "less")
        THEN [operator |-> "less",
              next |-> IF isKw(At(toks, i + 1), "than") THEN i + 2 ELSE i + 1]
    ELSE IF isKw(At(toks, i), "equal_to")
        THEN [operator |-> "equal", next |-> i + 1]
    ELSE [operator |-> "", next |-> i]

\* the rest of parseCondition once left and the operator are read
conditionFrom(toks, left, op) ==
    IF op.operator = "" THEN NoCondition
    ELSE IF ~isValue(At(toks, op.next)) THEN NoCondition
    ELSE [ok |-> TRUE,
          condition |-> [left |-> left, operator |-> op.operator,
                         right |-> val(At(toks, op.next))],
          nextIndex |-> op.next + 1]

parseCondition(toks, startIdx) ==
    IF ~isValue(At(toks, startIdx)) THEN NoCondition
    ELSE conditionFrom(toks, val(At(toks, startIdx)), comparisonAt(toks, startIdx + 1))

-----------------------------------------------------------------------------
(* grammar: GRAMMAR_RULES, one matcher per rule *)

match_comment(toks) ==
    IF Len(toks) >= 2 /\ isKw(At(toks, 0), "comment")
    THEN [type |-> "comment", text |-> join(tokenValues(sliceFrom(toks, 1)), " ")]
    ELSE NoMatch

match_list_creation(toks) ==
    IF Len(toks) >= 4 /\ isKw(At(toks, 0), "create") /\ isKw(At(toks, 1), "list")
    THEN IF ~isId(At(toks, 2)) THEN NoMatch
         ELSE LET startIdx == IF isKw(At(toks, 3), "value") THEN 4 ELSE 3
              IN  [type |-> "list_creation", name |-> At(toks, 2).value,
                   values |-> valuesFrom(toks, startIdx)]
    ELSE NoMatch

\* the loop that looks for "to": the first i >= 2 with tokens[i] = to and a
\* token after it; -1 when there is none
RECURSIVE findTo(_, _)
findTo(toks, i) ==
    IF i >= Len(toks) THEN -1
    ELSE IF isKw(At(toks, i), "to") /\ i + 1 < Len(toks) THEN i
    ELSE findTo(toks, i + 1)

match_append(toks) ==
    IF Len(toks) >= 4 /\ isKw(At(toks, 0), "append")
    THEN IF ~isValue(At(toks, 1)) THEN NoMatch
         ELSE LET i == findTo(toks, 2)
              IN  IF i < 0 \/ ~isId(At(toks, i + 1)) THEN NoMatch
                  ELSE [type |-> "append", list |-> At(toks, i + 1).value,
                        value |-> val(At(toks, 1))]
    ELSE NoMatch

\* the while loop that collects parameter names: the index where it stops
RECURSIVE paramsEnd(_, _)
paramsEnd(toks, bodyStart) ==
    IF bodyStart < Len(toks) /\ isId(At(toks, bodyStart)) /\ ~isKw(At(toks, bodyStart), "do")
    THEN paramsEnd(toks, bodyStart + 1)
    ELSE bodyStart

\* the function_def node once the index after the parameters is known
function_def_node(toks, hasParams, afterParams) ==
    [type |-> "function_def", name |-> At(toks, 2).value,
     params |-> IF hasParams THEN tokenValues(slice(toks, 4, afterParams)) ELSE <<>>,
     bodyTokens |-> sliceFrom(toks, IF isKw(At(toks, afterParams), "do")
                                    THEN afterParams + 1 ELSE afterParams)]

function_def_params(toks, hasParams) ==
    function_def_node(toks, hasParams, IF hasParams THEN paramsEnd(toks, 4) ELSE 3)

match_function_def(toks) ==
    IF Len(toks) >= 4 /\ isKw(At(toks, 0), "define") /\ isKw(At(toks, 1), "function")
    THEN IF ~isId(At(toks, 2)) THEN NoMatch
         ELSE function_def_params(toks, isKw(At(toks, 3), "parameter")
                                        \/ isKw(At(toks, 3), "parameters"))
    ELSE NoMatch

match_function_call(toks) ==
    IF Len(toks) >= 2 /\ isKw(At(toks, 0), "call")
    THEN IF ~isId(At(toks, 1)) THEN NoMatch
         ELSE LET startIdx == IF isKw(At(toks, 2), "value") THEN 3 ELSE 2
              IN  [type |-> "function_call", name |-> At(toks, 1).value,
                   args |-> valuesFrom(toks, startIdx)]
    ELSE NoMatch

match_return(toks) ==
    IF Len(toks) >= 1 /\ isKw(At(toks, 0), "return")
    THEN IF Len(toks) >= 2 /\ isValue(At(toks, 1))
         THEN [type |-> "return", value |-> Some(val(At(toks, 1)))]
         ELSE [type |-> "return", value |-> None]
    ELSE NoMatch

\* the scanning loop of the for rule; st holds fromVal, toVal, stepVal, bodyStart
RECURSIVE forScan(_, _, _)
forScan(toks, i, st) ==
    IF i >= Len(toks) THEN st
    ELSE IF isKw(At(toks, i), "from") /\ i + 1 < Len(toks)
         THEN forScan(toks, i + 2, [st EXCEPT !.fromVal = Some(val(At(toks, i + 1)))])
    ELSE IF isKw(At(toks, i), "to") /\ i + 1 < Len(toks)
         THEN forScan(toks, i + 2, [st EXCEPT !.toVal = Some(val(At(toks, i + 1)))])
    ELSE IF isKw(At(toks, i), "by") /\ i + 1 < Len(toks)
         THEN forScan(toks, i + 2, [st EXCEPT !.stepVal = Some(val(At(toks, i + 1)))])
    ELSE IF isKw(At(toks, i), "do")
         THEN [st EXCEPT !.bodyStart = i + 1]
    ELSE forScan(toks, i + 1, st)

\* the for_loop node from what the scanning loop found
for_loop_node(toks, st) ==
    IF st.fromVal = None \/ st.toVal = None THEN NoMatch
    ELSE [type |-> "for_loop", variable |-> At(toks, 1).value,
          from |-> st.fromVal[1], to |-> st.toVal[1], step |-> st.stepVal,
          bodyTokens |-> IF st.bodyStart >= 0 THEN sliceFrom(toks, st.bodyStart) ELSE <<>>]

match_for_loop(toks) ==
    IF Len(toks) >= 6 /\ isKw(At(toks, 0), "for")
    THEN IF ~isId(At(toks, 1)) THEN NoMatch
         ELSE for_loop_node(toks, forScan(toks, 2, [fromVal |-> None, toVal |-> None,
                                                    stepVal |-> None, bodyStart |-> -1]))
    ELSE NoMatch

\* the index after tokens[i] when it is the keyword kw, else i
skipKw(toks, i, kw) == IF isKw(At(toks, i), kw) THEN i + 1 ELSE i

\* the while_loop node from the parsed condition
while_loop_node(toks, parsedCond) ==
    IF ~parsedCond.ok THEN NoMatch
    ELSE [type |-> "while_loop", condition |-> parsedCond.condition,
          bodyTokens |-> sliceFrom(toks, skipKw(toks, parsedCond.nextIndex, "do"))]

match_while_loop(toks) ==
    IF Len(toks) >= 5 /\ isKw(At(toks, 0), "while")
    THEN while_loop_node(toks, parseCondition(toks, 1))
    ELSE NoMatch

\* the last "else" at or after i; -1 when none
findElse_lastElse(toks, i) ==
    IF \A k \in i..(Len(toks) - 1) : ~isKw(At(toks, k), "else") THEN -1
    ELSE Max({k \in i..(Len(toks) - 1) : isKw(At(toks, k), "else")})

\* the loop that looks for the first "else" at or after i; -1 when none
RECURSIVE findElse(_, _)
findElse(toks, i) ==
    IF i >= Len(toks) THEN -1
    ELSE IF isKw(At(toks, i), "else") THEN i
    ELSE findElse(toks, i + 1)

\* the if_statement node from the condition and the two indices
if_statement_node(toks, condition, thenStart, elseIndex) ==
    [type |-> "if_statement", condition |-> condition,
     thenTokens |-> IF elseIndex >= 0 THEN slice(toks, thenStart, elseIndex)
                    ELSE sliceFrom(toks, thenStart),
     elseTokens |-> IF elseIndex >= 0 THEN sliceFrom(toks, elseIndex + 1) ELSE <<>>]

if_statement_then(toks, condition, thenStart) ==
    if_statement_node(toks, condition, thenStart, findElse(toks, thenStart))

if_statement_cond(toks, parsedCond) ==
    IF ~parsedCond.ok THEN NoMatch
    ELSE if_statement_then(toks, parsedCond.condition,
                           skipKw(toks, parsedCond.nextIndex, "then"))

match_if_statement(toks) ==
    IF Len(toks) >= 4 /\ isKw(At(toks, 0), "if")
    THEN if_statement_cond(toks, parseCondition(toks, 1))
    ELSE NoMatch

ARITHMETIC_KEYWORDS == {"add", "subtract", "multiply", "divide", "modulus"}

\* the inner loop of the arithmetic rule: the first identifier after store / in
RECURSIVE findResult(_, _)
findResult(toks, j) ==
    IF j >= Len(toks) THEN None
    ELSE IF isKw(At(toks, j), "in") THEN findResult(toks, j + 1)
    ELSE IF isId(At(toks, j)) THEN Some(At(toks, j).value)
    ELSE findResult(toks, j + 1)

\* the outer loop of the arithmetic rule; st holds b and result
RECURSIVE arithScan(_, _, _)
arithScan(toks, i, st) ==
    IF i >= Len(toks) THEN st
    ELSE IF isKw(At(toks, i), "and") /\ i + 1 < Len(toks) /\ isValue(At(toks, i + 1))
         THEN arithScan(toks, i + 2, [st EXCEPT !.b = Some(val(At(toks, i + 1)))])
    ELSE IF st.b = None /\ isValue(At(toks, i))
            /\ ~isKw(At(toks, i), "store") /\ ~isKw(At(toks, i), "in")
         THEN arithScan(toks, i + 1, [st EXCEPT !.b = Some(val(At(toks, i)))])
    ELSE IF isKw(At(toks, i), "store") \/ isKw(At(toks, i), "in")
         THEN [st EXCEPT !.result = findResult(toks, i + 1)]
    ELSE arithScan(toks, i + 1, st)

\* the arithmetic node from a and what the loop found
arithmetic_node(toks, a, st) ==
    IF a = None \/ st.b = None THEN NoMatch
    ELSE [type |-> "arithmetic", operator |-> At(toks, 0).value,
          left |-> a[1], right |-> st.b[1], result |-> st.result]

match_arithmetic(toks) ==
    IF Len(toks) >= 4 /\ At(toks, 0).type = "KEYWORD"
       /\ At(toks, 0).value \in ARITHMETIC_KEYWORDS
    THEN arithmetic_node(toks,
                         IF isValue(At(toks, 1)) THEN Some(val(At(toks, 1))) ELSE None,
                         arithScan(toks, 2, [b |-> None, result |-> None]))
    ELSE NoMatch

\* increment and decrement share their body but for the keyword
match_step(toks, keyword) ==
    IF Len(toks) >= 2 /\ isKw(At(toks, 0), keyword)
    THEN IF ~isId(At(toks, 1)) THEN NoMatch
         ELSE [type |-> keyword, variable |-> At(toks, 1).value,
               amount |-> IF Len(toks) >= 4 /\ isKw(At(toks, 2), "by") /\ isValue(At(toks, 3))
                          THEN val(At(toks, 3)) ELSE "1"]
    ELSE NoMatch

match_increment(toks) == match_step(toks, "increment")

match_decrement(toks) == match_step(toks, "decrement")

match_input(toks) ==
    IF Len(toks) >= 2 /\ isKw(At(toks, 0), "input")
    THEN IF ~isId(At(toks, 1)) THEN NoMatch
         ELSE [type |-> "input", variable |-> At(toks, 1).value]
    ELSE NoMatch

\* a line without a value matches nothing
variable_creation_node_needsValue(toks, nameIdx, idx) ==
    IF ~isId(At(toks, nameIdx)) \/ ~isValue(At(toks, idx)) THEN NoMatch
    ELSE [type |-> "variable_creation", name |-> At(toks, nameIdx).value,
          value |-> Some(val(At(toks, idx)))]

\* the variable_creation node from the indices of the name and of the value
variable_creation_node(toks, nameIdx, idx) ==
    IF ~isId(At(toks, nameIdx)) THEN NoMatch
    ELSE IF isValue(At(toks, idx))
         THEN [type |-> "variable_creation", name |-> At(toks, nameIdx).value,
               value |-> Some(val(At(toks, idx)))]
         ELSE [type |-> "variable_creation", name |-> At(toks, nameIdx).value,
               value |-> None]

variable_creation_name(toks, nameIdx) ==
    variable_creation_node(toks, nameIdx, skipKw(toks, nameIdx + 1, "value"))

\* the token after create is taken as the name whatever its class
match_variable_creation_anyName(toks) ==
    IF Len(toks) >= 3 /\ isKw(At(toks, 0), "create")
    THEN [type |-> "variable_creation", name |-> At(toks, 1).value, value |-> None]
    ELSE NoMatch

match_variable_creation(toks) ==
    IF Len(toks) >= 3 /\ isKw(At(toks, 0), "create")
    THEN variable_creation_name(toks, skipKw(toks, 1, "variable"))
    ELSE NoMatch

match_assignment(toks) ==
    IF Len(toks) >= 3 /\ isKw(At(toks, 0), "set")
    THEN IF ~isId(At(toks, 1)) THEN NoMatch
         ELSE LET idx == IF isKw(At(toks, 2), "to") \/ isKw(At(toks, 2), "value")
                         THEN 3 ELSE 2
              IN  IF isValue(At(toks, idx))
                  THEN [type |-> "assignment", name |-> At(toks, 1).value,
                        value |-> val(At(toks, idx))]
                  ELSE NoMatch
    ELSE NoMatch

match_print(toks) ==
    IF Len(toks) >= 2 /\ isKw(At(toks, 0), "print")
    THEN LET values == valuesFrom(toks, 1)
         IN  IF Len(values) = 0 THEN NoMatch
             ELSE [type |-> "print", values |-> values]
    ELSE NoMatch

\* the names of the rules in the order of the GRAMMAR_RULES array
GRAMMAR_RULES == <<
    "comment", "list_creation", "append", "function_def", "function_call",
    "return", "for_loop", "while_loop", "if_statement", "arithmetic",
    "increment", "decrement", "input", "variable_creation", "assignment", "print" >>

match(rule, toks) ==
    CASE rule = "comment"           -> match_comment(toks)
      [] rule = "list_creation"     -> match_list_creation(toks)
      [] rule = "append"            -> match_append(toks)
      [] rule = "function_def"      -> match_function_def(toks)
      [] rule = "function_call"     -> match_function_call(toks)
      [] rule = "return"            -> match_return(toks)
      [] rule = "for_loop"          -> match_for_loop(toks)
      [] rule = "while_loop"        -> match_while_loop(toks)
      [] rule = "if_statement"      -> match_if_statement(toks)
      [] rule = "arithmetic"        -> match_arithmetic(toks)
      [] rule = "increment"         -> match_increment(toks)
      [] rule = "decrement"         -> match_decrement(toks)
      [] rule = "input"             -> match_input(toks)
      [] rule = "variable_creation" -> match_variable_creation(toks)
      [] rule = "assignment"        -> match_assignment(toks)
      [] rule = "print"             -> match_print(toks)

-----------------------------------------------------------------------------
(* parser: parse, parseLine *)

\* rule.match(tokens) for every rule, in the order of GRAMMAR_RULES
matchAll(toks) == [r \in 1..Len(GRAMMAR_RULES) |-> match(GRAMMAR_RULES[r], toks)]

\* the scan of the rules starts after the first one
firstOf_afterFirstRule(results) ==
    IF \A r \in DOMAIN results \ {1} : results[r] = NoMatch THEN NoMatch
    ELSE results[Min({r \in DOMAIN results \ {1} : results[r] # NoMatch})]

\* the result of the first rule that matched
firstOf(results) ==
    IF \A r \in DOMAIN results : results[r] = NoMatch THEN NoMatch
    ELSE results[Min({r \in DOMAIN results : results[r] # NoMatch})]

\* the for loop over GRAMMAR_RULES: the node of the first rule that matches
firstMatch(toks) == firstOf(matchAll(toks))

has(node, field) == field \in DOMAIN node

\* delete node[field]
delete(node, field) == [f \in DOMAIN node \ {field} |-> node[f]]

\* the error text without the reconstructed input
unrecognized_withoutInput(toks) ==
    "Unrecognized command.\nTry patterns like: \"create variable x value 10\", \"print x\", \"if x greater than 5 then print x\""

unrecognized(toks) ==
    "Unrecognized command: \"" \o join(tokenValues(toks), " ")
    \o "\".\nTry patterns like: \"create variable x value 10\", \"print x\", \"if x greater than 5 then print x\""

RECURSIVE parse(_)
\* a span that does not parse is attached all the same, as an error node
parseSpan_attachFailed(node, spanField, bodyField) ==
    IF has(node, spanField) /\ Len(node[spanField]) > 0
    THEN LET spanParsed == parse(node[spanField])
         IN  IF spanParsed.success
             THEN delete(node, spanField) @@ [f \in {bodyField} |-> spanParsed.node]
             ELSE delete(node, spanField)
                  @@ [f \in {bodyField} |-> [type |-> "error", text |-> spanParsed.error]]
    ELSE node

\* one of the three blocks of parse: a span that is present and not empty is
\* parsed, attached under bodyField when it parses, and deleted
parseSpan(node, spanField, bodyField) ==
    IF has(node, spanField) /\ Len(node[spanField]) > 0
    THEN LET spanParsed == parse(node[spanField])
         IN  IF spanParsed.success
             THEN delete(node, spanField) @@ [f \in {bodyField} |-> spanParsed.node]
             ELSE delete(node, spanField)
    ELSE node

\* the body of the for loop of parse for the node of the rule that matched
parseMatched(toks, node) ==
    IF node # NoMatch
    THEN [success |-> TRUE,
          node |-> parseSpan(parseSpan(parseSpan(node, "bodyTokens", "body"),
                                       "thenTokens", "thenBody"),
                             "elseTokens", "elseBody")]
    ELSE [success |-> FALSE, error |-> unrecognized(toks)]

parse(toks) ==
    IF Len(toks) = 0 THEN [success |-> FALSE, error |-> "Empty input"]
    ELSE parseMatched(toks, firstMatch(toks))

parseLine(preprocessedLine) == parse(tokenize(preprocessedLine))

-----------------------------------------------------------------------------
(* generator: tables and helpers *)

Langs == {"python", "java", "cpp"}

COMPARISON_OPS(operator) ==
    CASE operator = "greater"   -> ">"
      [] operator = "less"      -> "<"
      [] operator = "equal"     -> "=="
      [] operator = "not_equal" -> "!="

ARITHMETIC_OPS(operator) ==
    CASE operator = "add"      -> "+"
      [] operator = "subtract" -> "-"
      [] operator = "multiply" -> "*"
      [] operator = "divide"   -> "/"
      [] operator = "modulus"  -> "%"

\* String.prototype.repeat
RECURSIVE repeat(_, _)
repeat(unit, n) == IF n <= 0 THEN "" ELSE unit \o repeat(unit, n - 1)

indentLines(ls, prefix) ==
    [i \in 1..Len(ls) |-> IF trim(ls[i]) # "" THEN prefix \o ls[i] ELSE ls[i]]

\* the lines are joined again without a prefix
indent_flat(text, level) == join(split(text, "\n"), "\n")

indent(text, level) == join(indentLines(split(text, "\n"), repeat("    ", level)), "\n")

\* value is a nullable string
inferType(value) ==
    IF value = None THEN "int"
    ELSE LET v == value[1]
         IN  IF v = "true" \/ v = "false" THEN "bool"
             ELSE IF Len(v) >= 2 /\ Head(v) = "\"" /\ Ch(v, Len(v)) = "\""
                     /\ noLineTerminator(v) THEN "string"
             ELSE IF \E k \in 2..(Len(v) - 1) :
                        /\ Ch(v, k) = "."
                        /\ allDigits(SubSeq(v, 1, k - 1))
                        /\ allDigits(SubSeq(v, k + 1, Len(v))) THEN "double"
             ELSE IF allDigits(v) THEN "int"
             ELSE "auto"

javaType(value) ==
    LET t == inferType(value)
    IN  CASE t = "int" -> "int" [] t = "double" -> "double" [] t = "string" -> "String"
          [] t = "bool" -> "boolean" [] t = "auto" -> "var"

cppType(value) ==
    LET t == inferType(value)
    IN  CASE t = "int" -> "int" [] t = "double" -> "double" [] t = "string" -> "std::string"
          [] t = "bool" -> "bool" [] t = "auto" -> "auto"

\* value is a nullable string
formatValue(value, target) ==
    IF value = None THEN (IF target = "python" THEN "None" ELSE "0")
    ELSE IF value[1] = "true" THEN (IF target = "python" THEN "True" ELSE "true")
    ELSE IF value[1] = "false" THEN (IF target = "python" THEN "False" ELSE "false")
    ELSE value[1]

formatAll(values, target) == [i \in 1..Len(values) |-> formatValue(Some(values[i]), target)]

-----------------------------------------------------------------------------
(* generator: generators, one per node type; generate; generateProgram *)

gen_variable_creation(node, target) ==
    LET v == formatValue(node.value, target)
    IN  CASE target = "python" -> node.name \o " = " \o v
          [] target = "java"   -> javaType(node.value) \o " " \o node.name \o " = " \o v \o ";"
          [] target = "cpp"    -> cppType(node.value) \o " " \o node.name \o " = " \o v \o ";"

gen_assignment(node, target) ==
    LET v == formatValue(Some(node.value), target)
    IN  IF target = "python" THEN node.name \o " = " \o v
        ELSE node.name \o " = " \o v \o ";"

gen_print(node, target) ==
    LET vals == formatAll(node.values, target)
    IN  CASE target = "python" -> "print(" \o join(vals, ", ") \o ")"
          [] target = "java"   -> "System.out.println(" \o join(vals, " + ") \o ");"
          [] target = "cpp"    -> "std::cout << " \o join(vals, " << \" \" << ")
                                  \o " << std::endl;"

gen_input(node, target) ==
    CASE target = "python" -> node.variable \o " = input()"
      [] target = "java"   -> node.variable \o " = scanner.nextLine();"
      [] target = "cpp"    -> "std::cin >> " \o node.variable \o ";"

gen_arithmetic(node, target) ==
    LET expr == node.left \o " " \o ARITHMETIC_OPS(node.operator) \o " " \o node.right
    IN  IF node.result # None
        THEN IF target = "python" THEN node.result[1] \o " = " \o expr
             ELSE node.result[1] \o " = " \o expr \o ";"
        ELSE expr

\* increment and decrement share their body but for the sign
gen_step(node, target, sign) ==
    IF node.amount = "1"
    THEN IF target = "python" THEN node.variable \o " " \o sign \o "= 1"
         ELSE node.variable \o sign \o sign \o ";"
    ELSE IF target = "python" THEN node.variable \o " " \o sign \o "= " \o node.amount
         ELSE node.variable \o " " \o sign \o "= " \o node.amount \o ";"

gen_increment(node, target) == gen_step(node, target, "+")

gen_decrement(node, target) == gen_step(node, target, "-")

gen_function_call(node, target) ==
    LET args == join(node.args, ", ")
    IN  IF target = "python" THEN node.name \o "(" \o args \o ")"
        ELSE node.name \o "(" \o args \o ");"

gen_return(node, target) ==
    LET v == IF node.value # None /\ node.value[1] # ""
             THEN formatValue(node.value, target) ELSE ""
    IN  IF target = "python" THEN (IF v # "" THEN "return " \o v ELSE "return")
        ELSE (IF v # "" THEN "return " \o v \o ";" ELSE "return;")

gen_list_creation(node, target) ==
    LET vals == join(node.values, ", ")
    IN  CASE target = "python" -> node.name \o " = [" \o vals \o "]"
          [] target = "java"   -> "ArrayList<Object> " \o node.name
                                  \o " = new ArrayList<>(Arrays.asList(" \o vals \o "));"
          [] target = "cpp"    -> "std::vector<auto> " \o node.name \o " = {" \o vals \o "};"

gen_append(node, target) ==
    CASE target = "python" -> node.list \o ".append(" \o node.value \o ")"
      [] target = "java"   -> node.list \o ".add(" \o node.value \o ");"
      [] target = "cpp"    -> node.list \o ".push_back(" \o node.value \o ");"

gen_comment(node, target) ==
    IF target = "python" THEN "# " \o node.text ELSE "// " \o node.text

conditionText(node) ==
    node.condition.left \o " " \o COMPARISON_OPS(node.condition.operator)
    \o " " \o node.condition.right

javaParams(params) == [i \in 1..Len(params) |-> "Object " \o params[i]]

cppParams(params) == [i \in 1..Len(params) |-> "auto " \o params[i]]

GENERATED_TYPES == {
    "variable_creation", "assignment", "print", "input", "arithmetic", "increment",
    "decrement", "if_statement", "while_loop", "for_loop", "function_def",
    "function_call", "return", "list_creation", "append", "comment" }

RECURSIVE generate(_, _)
gen_if_statement(node, target) ==
    LET cond     == conditionText(node)
        thenCode == IF has(node, "thenBody") THEN generate(node.thenBody, target) ELSE "pass"
        hasElse  == has(node, "elseBody") /\ generate(node.elseBody, target) # ""
    IN  IF target = "python"
        THEN "if " \o cond \o ":\n" \o indent(thenCode, 1)
             \o (IF hasElse
                 THEN "\nelse:\n" \o indent(generate(node.elseBody, target), 1) ELSE "")
        ELSE "if (" \o cond \o ") {\n" \o indent(thenCode, 1) \o "\n}"
             \o (IF hasElse
                 THEN " else {\n" \o indent(generate(node.elseBody, target), 1) \o "\n}"
                 ELSE "")

gen_while_loop(node, target) ==
    LET cond     == conditionText(node)
        bodyCode == IF has(node, "body") THEN generate(node.body, target) ELSE "pass"
    IN  IF target = "python"
        THEN "while " \o cond \o ":\n" \o indent(bodyCode, 1)
        ELSE "while (" \o cond \o ") {\n" \o indent(bodyCode, 1) \o "\n}"

gen_for_loop(node, target) ==
    LET bodyCode == IF has(node, "body") THEN generate(node.body, target) ELSE "pass"
        step     == IF node.step # None /\ node.step[1] # "" THEN node.step[1] ELSE "1"
    IN  IF target = "python"
        THEN "for " \o node.variable \o " in range("
             \o (IF step = "1" THEN node.from \o ", " \o node.to
                 ELSE node.from \o ", " \o node.to \o ", " \o step)
             \o "):\n" \o indent(bodyCode, 1)
        ELSE "for (int " \o node.variable \o " = " \o node.from \o "; "
             \o node.variable \o " < " \o node.to \o "; "
             \o node.variable \o " += " \o step \o ") {\n" \o indent(bodyCode, 1) \o "\n}"

gen_function_def(node, target) ==
    LET params   == node.params
        bodyCode == IF has(node, "body") THEN generate(node.body, target)
                    ELSE (IF target = "python" THEN "pass" ELSE "")
    IN  CASE target = "python" ->
               "def " \o node.name \o "(" \o join(params, ", ") \o "):\n" \o indent(bodyCode, 1)
          [] target = "java" ->
               "public static void " \o node.name \o "(" \o join(javaParams(params), ", ")
               \o ") {\n" \o indent(bodyCode, 1) \o "\n}"
          [] target = "cpp" ->
               "void " \o node.name \o "(" \o join(cppParams(params), ", ")
               \o ") {\n" \o indent(bodyCode, 1) \o "\n}"

\* generators is an object literal: a name that is none of its keys is looked
\* up in Object.prototype
OBJECT_PROTOTYPE == {
    "constructor", "toString", "toLocaleString", "valueOf", "hasOwnProperty",
    "isPrototypeOf", "propertyIsEnumerable", "__proto__", "__defineGetter__",
    "__defineSetter__", "__lookupGetter__", "__lookupSetter__" }

TypeError == [thrown |-> "TypeError"]

\* gen(node, lang) for an inherited gen: a plain call in a module, so this is
\* undefined
inheritedCall(name, node) ==
    CASE name = "toString"    -> "[object Undefined]"
      [] name = "constructor" -> node
      [] OTHER                -> TypeError

generate(node, target) ==
    IF ~has(node, "type") \/ node.type = "" THEN ""
    ELSE CASE node.type = "variable_creation" -> gen_variable_creation(node, target)
           [] node.type = "assignment"        -> gen_assignment(node, target)
           [] node.type = "print"             -> gen_print(node, target)
           [] node.type = "input"             -> gen_input(node, target)
           [] node.type = "arithmetic"        -> gen_arithmetic(node, target)
           [] node.type = "increment"         -> gen_increment(node, target)
           [] node.type = "decrement"         -> gen_decrement(node, target)
           [] node.type = "if_statement"      -> gen_if_statement(node, target)
           [] node.type = "while_loop"        -> gen_while_loop(node, target)
           [] node.type = "for_loop"          -> gen_for_loop(node, target)
           [] node.type = "function_def"      -> gen_function_def(node, target)
           [] node.type = "function_call"     -> gen_function_call(node, target)
           [] node.type = "return"            -> gen_return(node, target)
           [] node.type = "list_creation"     -> gen_list_creation(node, target)
           [] node.type = "append"            -> gen_append(node, target)
           [] node.type = "comment"           -> gen_comment(node, target)
           [] node.type \in OBJECT_PROTOTYPE   -> inheritedCall(node.type, node)
           [] OTHER -> "/* Unsupported node type: " \o node.type \o " */"

generateAll(nodes, target) == [i \in 1..Len(nodes) |-> generate(nodes[i], target)]

indentAll(texts, level) == [i \in 1..Len(texts) |-> indent(texts[i], level)]

isFunctionDef(node) == node.type = "function_def"

isNotFunctionDef(node) == node.type # "function_def"

hasType(nodes, types) == \E i \in 1..Len(nodes) : nodes[i].type \in types

\* the Java boilerplate around the generated function and main lines
generateJava(needsScanner, needsArrays, funcLines, mainLines) ==
    (IF needsScanner THEN "import java.util.Scanner;\n" ELSE "")
    \o (IF needsArrays THEN "import java.util.ArrayList;\nimport java.util.Arrays;\n" ELSE "")
    \o "public class Main {\n" \o join(funcLines, "\n\n")
    \o "\n    public static void main(String[] args) {\n"
    \o (IF needsScanner
        THEN indent("Scanner scanner = new Scanner(System.in);", 2) \o "\n" ELSE "")
    \o join(mainLines, "\n") \o "\n    }\n}"

\* the C++ boilerplate around the generated function and main lines
generateCpp(needsVector, funcLines, mainLines) ==
    "#include <iostream>\n" \o (IF needsVector THEN "#include <vector>\n" ELSE "")
    \o "#include <string>\n"
    \o "\n" \o join(funcLines, "\n\n") \o "\nint main() {\n"
    \o join(mainLines, "\n") \o "\n    return 0;\n}"

generateProgram(nodes, target) ==
    IF Len(nodes) = 0 THEN ""
    ELSE CASE target = "java" ->
               generateJava(hasType(nodes, {"input"}), hasType(nodes, {"list_creation"}),
                   indentAll(generateAll(SelectSeq(nodes, isFunctionDef), target), 1),
                   indentAll(generateAll(SelectSeq(nodes, isNotFunctionDef), target), 2))
           [] target = "cpp" ->
               generateCpp(hasType(nodes, {"list_creation", "append"}),
                   generateAll(SelectSeq(nodes, isFunctionDef), target),
                   indentAll(generateAll(SelectSeq(nodes, isNotFunctionDef), target), 1))
           [] target = "python" -> join(generateAll(nodes, target), "\n")

-----------------------------------------------------------------------------
(* app: translateLine, translateProgram *)

\* the end of translateLine: the parse result becomes code or an error
translateParsed(result, target) ==
    IF ~result.success THEN [success |-> FALSE, error |-> result.error]
    ELSE [success |-> TRUE, code |-> generate(result.node, target), ast |-> result.node]

translateTokens(lineTokens, target) ==
    IF Len(lineTokens) = 0 THEN [success |-> FALSE, error |-> "No tokens found"]
    ELSE translateParsed(parse(lineTokens), target)

translateCleaned(cleanedLine, target) ==
    IF cleanedLine = "" THEN [success |-> FALSE, error |-> "Empty input"]
    ELSE translateTokens(tokenize(cleanedLine), target)

translateLine(rawLine, target) == translateCleaned(preprocess(rawLine), target)

\* a line that parses is handled twice
collect_twice(acc, index, lineTokens, result) ==
    IF result.success
    THEN [acc EXCEPT !.nodes = Append(Append(@, result.node), result.node),
                     !.totalTokens = @ + Len(lineTokens) + Len(lineTokens)]
    ELSE [acc EXCEPT !.errors = Append(@, [line |-> index + 1, error |-> result.error]),
                     !.totalTokens = @ + Len(lineTokens)]

\* the forEach callback of translateProgram, folded over the cleaned lines;
\* acc holds nodes, errors and totalTokens
\* one call of the forEach callback: the outcome of a line goes into acc
collect(acc, index, lineTokens, result) ==
    IF result.success
    THEN [acc EXCEPT !.nodes = Append(@, result.node),
                     !.totalTokens = @ + Len(lineTokens)]
    ELSE [acc EXCEPT !.errors = Append(@, [line |-> index + 1, error |-> result.error]),
                     !.totalTokens = @ + Len(lineTokens)]

collectLine(acc, index, lineTokens) == collect(acc, index, lineTokens, parse(lineTokens))

RECURSIVE translateEach(_, _, _)
translateEach(cleanedLines, index, acc) ==
    IF index >= Len(cleanedLines) THEN acc
    ELSE translateEach(cleanedLines, index + 1,
                       collectLine(acc, index, tokenize(cleanedLines[index + 1])))

\* the first line that fails to parse ends the translation
assemble_abortOnError(acc, target) ==
    IF Len(acc.errors) > 0
    THEN [success |-> FALSE, errors |-> <<acc.errors[1]>>, totalTokens |-> acc.totalTokens]
    ELSE [success |-> TRUE, code |-> generateProgram(acc.nodes, target),
          errors |-> acc.errors, nodes |-> acc.nodes, totalTokens |-> acc.totalTokens]

\* the end of translateProgram: failure only when no line parsed
assemble(acc, target) ==
    IF Len(acc.nodes) = 0 /\ Len(acc.errors) > 0
    THEN [success |-> FALSE, errors |-> acc.errors, totalTokens |-> acc.totalTokens]
    ELSE [success |-> TRUE, code |-> generateProgram(acc.nodes, target),
          errors |-> acc.errors, nodes |-> acc.nodes, totalTokens |-> acc.totalTokens]

translateLines(cleanedLines, target) ==
    IF Len(cleanedLines) = 0
    THEN [success |-> FALSE, errors |-> <<[line |-> 0, error |-> "Empty input"]>>]
    ELSE assemble(translateEach(cleanedLines, 0,
                                [nodes |-> <<>>, errors |-> <<>>, totalTokens |-> 0]),
                  target)

translateProgram(input, target) == translateLines(preprocessLines(input), target)

\* the tests: parseLine on every normalized line, the nodes pushed in order
parseAll(ls) == [i \in 1..Len(ls) |-> parseLine(ls[i])]

allSucceed(results) == \A i \in 1..Len(results) : results[i].success

nodesOf(results) == [i \in 1..Len(results) |-> results[i].node]

-----------------------------------------------------------------------------
(* The inputs explored *)

\* all sequences over the words of pool with 1..n elements, joined by sep
RECURSIVE phrases(_, _, _)
phrases(pool, n, sep) ==
    IF n <= 0 THEN {}
    ELSE pool \cup {p \o sep \o w : p \in phrases(pool, n - 1, sep), w \in pool}

\* the example commands offered by the application, line by line
EXAMPLE_COMMANDS == {
    "print \"Hello World\"",
    "create variable x value 10",
    "add x and y store in result",
    "print result",
    "if age greater than 17 then print \"Adult\" else print \"Minor\"",
    "while counter less than 5 do increment counter",
    "for i from 1 to 11 do print i",
    "define function greet do print \"Hello!\"",
    "call greet",
    "create list numbers values 1 2 3 4 5",
    "append 6 to numbers",
    "comment A simple calculator" }

\* raw words a user may type: upper case, punctuation, quoted literals,
\* synonyms, fillers
RawWords == {"Print", "Display,", "\"Hello World\"", "'it is'", "please", "also"}

RawLines == phrases(RawWords, MaxWords, " ")

\* normalized lines as the tests hand them to parseLine: a compound head
\* (or none) followed by a body of up to MaxBody words
Heads == {
    "if x greater than 5 then", "if x not equal_to y", "while x less than 5 do",
    "for i from 1 to 3 do", "define function f do", "define function f parameter a b do" }

BodyWords == {"print", "x", "blah", "else"}

Bodies == phrases(BodyWords, MaxBody, " ")

ResultWords == {"result", "z", "total", "value"}

ArithmeticLines ==
    {op \o " x and y store in " \o r : op \in ARITHMETIC_KEYWORDS, r \in ResultWords}

\* one line or more for every rule of the grammar, and lines no rule takes
RuleLines == {
    "comment hi there", "create list xs values 1 2", "append 5 to xs",
    "call f 1 2", "return", "return 5", "for i to 9 by 2 from 1 do print i",
    "increment x by 2", "decrement x", "input x", "create variable x value 10",
    "create x", "set x to 5", "print @ x", "@", "__STRING_0__",
    "create variable x", "create variable x value -5", "create variable x value 1.5",
    "create variable x value true", "create variable x value \"hi\"",
    "create variable x value y",
    "if x greater than 5 then if y less than 3 then print a else print b",
    "if x greater than 5 then print a else print b else print c",
    "create variable x value", "for i by 2 to 9 from 1 do print i",
    "set ok to false", "print true", "return true", "create list xs values true false",
    "call f true", "append true to xs", "add true and false",
    "if x equal_to true then print x", "while ok equal_to false do print x",
    "for i from false to true do print i",
    "add x y", "add x y z", "add x and y and z", "add x y and z", "subtract 5 and 3",
    "print \"hello world\"", "print 'a b' true false -5 1.5 x_1 9x _y -", "for i from 1 do print i x",
    "for i to 5 do print i x",
    "for i from 1 to 3 do for j from 1 to 3 do print j",
    "for i from 1 to 3 do for j from 1 to 3 do for k from 1 to 3 do print k" }

NormalizedLines ==
    {""} \cup Heads \cup Bodies \cup ArithmeticLines \cup RuleLines
    \cup {h \o " " \o b : h \in Heads, b \in Bodies}

\* program texts: up to MaxLines lines
ProgramLines == {"", "please", "blah blah", "print x"}

Programs == phrases(ProgramLines, MaxLines, "\n")

\* normalized programs whose lines all parse: function definitions before,
\* between and after statements, and the statements that need a library
NodePrograms == {
    "print x\ndefine function f do print y",
    "define function f do print y\nprint x",
    "print x\ndefine function f do print y\nprint z\ndefine function g do print w",
    "create variable x value 10\nprint x",
    "input y", "print x\ninput y\ninput z",
    "define function f do input y", "if x greater than 5 then input y",
    "create list xs values 1 2", "append 5 to xs",
    "create list xs values 1 2\nappend 5 to xs\ncreate list ys values 3",
    "while x less than 5 do append 5 to xs",
    "set x to 5", "call f" }

\* the example of the user guides
DocumentedExamples == {"create a variable x equal to 10"}

\* words that are neither filler words nor synonym keys
PlainWords == {"x"}

\* every key of the synonym table, followed by a plain word
SynonymLines == {SYNONYM_ENTRIES[i][1] \o " " \o x : i \in DOMAIN SYNONYM_ENTRIES, x \in PlainWords}

Inputs ==
    EXAMPLE_COMMANDS \cup RawLines \cup NormalizedLines \cup Programs \cup NodePrograms
    \cup DocumentedExamples \cup SynonymLines

isSingleLine(text) == ~contains(text, "\n")

-----------------------------------------------------------------------------
(* improveGrammar: the remote models and what they answer *)

\* the models in the order they are tried
attempts == <<
    [model |-> "gemini-2.0-flash", api |-> "v1beta"],
    [model |-> "gemini-1.5-flash", api |-> "v1beta"],
    [model |-> "gemini-pro", api |-> "v1"] >>

\* the largest number of corrections a model lists
MaxCorrections == 11

\* a corrections array of n entries, told apart by their position
correctionsOf(n) ==
    [i \in 1..n |-> [original |-> "w" \o ToString(i), suggested |-> "v" \o ToString(i),
                     message |-> "m"]]

\* the JSON values a model answers with: null, or an object whose improved
\* and corrections members may each be missing
JsonNull == [json |-> "null"]

JsonObject(fields) == [json |-> "object", fields |-> fields]

CorrectionCounts == {0, 2, MaxCorrections}

Documents ==
    {JsonNull, JsonObject(<<>>), JsonObject([improved |-> "print x"]),
     JsonObject([corrections |-> correctionsOf(2)]),
     JsonObject([improved |-> "", corrections |-> correctionsOf(2)])}
    \cup {JsonObject([improved |-> "print x", corrections |-> correctionsOf(n)]) :
             n \in CorrectionCounts}

\* JSON.stringify on these values
stringifyCorrection(c) ==
    "{\"original\":\"" \o c.original \o "\",\"suggested\":\"" \o c.suggested
        \o "\",\"message\":\"" \o c.message \o "\"}"

stringifyCorrections(cs) ==
    "[" \o join([i \in 1..Len(cs) |-> stringifyCorrection(cs[i])], ",") \o "]"

stringifyMember(fields, name) ==
    IF name = "improved" THEN "\"improved\":\"" \o fields.improved \o "\""
    ELSE "\"corrections\":" \o stringifyCorrections(fields.corrections)

memberNames(fields) ==
    SelectSeq(<<"improved", "corrections">>, LAMBDA name : name \in DOMAIN fields)

stringify(doc) ==
    IF doc.json = "null" THEN "null"
    ELSE "{" \o join([i \in 1..Len(memberNames(doc.fields)) |->
                         stringifyMember(doc.fields, memberNames(doc.fields)[i])], ",") \o "}"

\* the serialization of every document
Serialized == [doc \in Documents |-> stringify(doc)]

\* JSON.parse on the texts explored: the value whose serialization the text
\* is, a SyntaxError for any other text
SyntaxError == [thrown |-> "SyntaxError"]

JSONparse(str) ==
    IF \E doc \in Documents : Serialized[doc] = str
    THEN CHOOSE doc \in Documents : Serialized[doc] = str
    ELSE SyntaxError

\* the backquote, and the fence of a markdown code block
Backquote == SubSeq("`'", 1, 1)

Fence == Backquote \o Backquote \o Backquote

\* the documents a model wraps into a markdown code fence
FencedDocuments == {JsonObject([improved |-> "print x", corrections |-> correctionsOf(2)])}

\* the texts of a candidate: a serialized document, bare or fenced, plain
\* prose, white space, nothing
ResponseTexts ==
    {Serialized[doc] : doc \in Documents}
    \cup {Fence \o "json\n" \o Serialized[doc] \o "\n" \o Fence : doc \in FencedDocuments}
    \cup {"print x", " \n", ""}

\* the bodies of a response: a candidate with a text, or no candidate text
Datas ==
    {[candidates |-> <<[content |-> [parts |-> <<[text |-> t]>>]]>>] : t \in ResponseTexts}
    \cup {[promptFeedback |-> "blocked"], [candidates |-> <<[finishReason |-> "SAFETY"]>>]}

\* how the promise of fetch settles, and the promise of response.json()
FetchOutcomes ==
    {[settled |-> "rejected", message |-> "fetch failed"],
     [settled |-> "fulfilled", ok |-> FALSE, status |-> 429],
     [settled |-> "fulfilled", ok |-> TRUE, status |-> 200]}

JsonOutcomes ==
    {[settled |-> "rejected", message |-> "Unexpected end of JSON input"]}
    \cup {[settled |-> "fulfilled", data |-> data] : data \in Datas}

\* data?.candidates?.[0]?.content?.parts?.[0]?.text || ""
responseTextOf(data) ==
    IF /\ has(data, "candidates")
       /\ Len(data.candidates) >= 1
       /\ has(data.candidates[1], "content")
    THEN data.candidates[1].content.parts[1].text
    ELSE ""

startsWith(str, prefix) == Len(str) >= Len(prefix) /\ SubSeq(str, 1, Len(prefix)) = prefix

endsWith(str, suffix) ==
    Len(str) >= Len(suffix) /\ SubSeq(str, Len(str) - Len(suffix) + 1, Len(str)) = suffix

\* the index of the first character at or after from that is no white space
skipSpaces(str, from) ==
    IF \E k \in from..Len(str) : ~isSpace(Ch(str, k))
    THEN Min({k \in from..Len(str) : ~isSpace(Ch(str, k))})
    ELSE Len(str) + 1

\* the index of the last character at or before to that is no white space
lastNonSpace(str, to) ==
    IF \E k \in 1..to : ~isSpace(Ch(str, k))
    THEN Max({k \in 1..to : ~isSpace(Ch(str, k))})
    ELSE 0

\* the opening fence, an optional json after it in either case, and the white
\* space that follows are removed from a text that starts with a fence
stripOpeningFence(str) ==
    IF Len(str) >= 7 /\ toLowerCase(SubSeq(str, 4, 7)) = "json"
    THEN SubSeq(str, skipSpaces(str, 8), Len(str))
    ELSE SubSeq(str, skipSpaces(str, 4), Len(str))

\* a closing fence at the end of the text is removed with the white space
\* before it
stripClosingFence(str) ==
    IF endsWith(str, Fence) THEN SubSeq(str, 1, lastNonSpace(str, Len(str) - 3)) ELSE str

stripFences(jsonStr) ==
    IF startsWith(jsonStr, Fence) THEN stripClosingFence(stripOpeningFence(jsonStr)) ELSE jsonStr

\* try { JSON.parse(jsonStr) } catch { the raw text as the improved version }
parseOrRaw(value, jsonStr) ==
    IF value = SyntaxError THEN JsonObject([improved |-> jsonStr, corrections |-> <<>>])
    ELSE value

parseAnswer(jsonStr) == parseOrRaw(JSONparse(jsonStr), jsonStr)

\* parsed.improved || text
improvedOf(fields, text) ==
    IF has(fields, "improved") /\ fields.improved # "" THEN fields.improved ELSE text

\* parsed.corrections || []
correctionsIn(fields) == IF has(fields, "corrections") THEN fields.corrections ELSE <<>>

\* corrections.slice(0, 10)
sliceCorrections(corrections) == SubSeq(corrections, 1, Min({Len(corrections), 10}))

\* what one attempt ends with: a value returned, or an error for lastError
Return(value) == [kind |-> "return", value |-> value]

Continue(error) == [kind |-> "continue", error |-> error]

improvement(text, fields) ==
    [success |-> TRUE, original |-> text, improved |-> improvedOf(fields, text),
     corrections_count |-> Len(correctionsIn(fields)),
     corrections |-> sliceCorrections(correctionsIn(fields))]

\* reading a property of null throws a TypeError, caught by the attempt
answerOf(text, model, document) ==
    IF document.json = "null"
    THEN Continue(model \o ": Cannot read properties of null (reading 'improved')")
    ELSE Return(improvement(text, document.fields))

\* the attempt after response.json() has settled
onJson(text, model, outcome) ==
    IF outcome.settled = "rejected" THEN Continue(model \o ": " \o outcome.message)
    ELSE IF responseTextOf(outcome.data) = "" THEN Continue(model \o ": empty response")
    ELSE answerOf(text, model, parseAnswer(stripFences(trim(responseTextOf(outcome.data)))))

\* the attempt after fetch has settled with a rejection or an HTTP error
onFetchFailure(model, outcome) ==
    IF outcome.settled = "rejected" THEN model \o ": " \o outcome.message
    ELSE model \o ": HTTP " \o ToString(outcome.status)

\* the early return when no key is configured
keyMissing(text) ==
    [success |-> FALSE, original |-> text, improved |-> text,
     error |-> "GEMINI_API_KEY not configured in .env"]

Fulfilled(value) == [state |-> "fulfilled", value |-> value]

Rejected(reason) == [state |-> "rejected", reason |-> reason]

Pending == [state |-> "pending"]

\* the error thrown after the loop is left to reject the promise
allModelsFailed_uncaught(text, error) ==
    Rejected("All models failed. Last error: " \o error)

\* throw new Error(...) after the loop, caught by the outer catch
allModelsFailed(text, error) ==
    Fulfilled([success |-> FALSE, original |-> text, improved |-> text,
               error |-> "All models failed. Last error: " \o error,
               message |-> "Grammar correction failed. Returning original text."])

\* the texts handed to improveGrammar, and process.env.GEMINI_API_KEY
Texts == {"prnt x"}

ApiKeys == {"", "key"}

NoReply == [settled |-> "pending"]

-----------------------------------------------------------------------------
(* The state machine: one input, then the calls made on it *)

NoResult == [success |-> FALSE, error |-> "not run"]

\* improveGrammar has not been called
grammarIdle ==
    /\ phase = "idle"
    /\ attempt = 0
    /\ lastError = None
    /\ calls = <<>>
    /\ replies = <<>>
    /\ promise = Pending

Init ==
    /\ rawInput \in Inputs
    /\ lang = "python"
    /\ pc = "ready"
    /\ cleaned = ""
    /\ renormalized = ""
    /\ tokens = <<>>
    /\ parsed = NoResult
    /\ code = ""
    /\ lineResult = NoResult
    /\ progResult = NoResult
    /\ programNodes = <<>>
    /\ grammarIdle
    /\ apiKey = "" /\ grammarText = ""

\* preprocess(rawInput)
Preprocess ==
    /\ pc = "ready"
    /\ isSingleLine(rawInput)
    /\ cleaned' = preprocess(rawInput)
    /\ pc' = "preprocessed"
    /\ UNCHANGED <<grammarVars, programNodes, rawInput, lang, renormalized, tokens, parsed, code, lineResult, progResult>>

\* preprocess applied to its own output
Renormalize ==
    /\ pc = "preprocessed"
    /\ renormalized' = preprocess(cleaned)
    /\ pc' = "renormalized"
    /\ UNCHANGED <<grammarVars, programNodes, rawInput, lang, cleaned, tokens, parsed, code, lineResult, progResult>>

\* tokenize(cleaned)
Tokenize ==
    /\ pc = "preprocessed"
    /\ tokens' = tokenize(cleaned)
    /\ pc' = "tokenized"
    /\ UNCHANGED <<grammarVars, programNodes, rawInput, lang, cleaned, renormalized, parsed, code, lineResult, progResult>>

\* parse(tokens)
Parse ==
    /\ pc = "tokenized"
    /\ parsed' = parse(tokens)
    /\ pc' = "parsed"
    /\ UNCHANGED <<grammarVars, programNodes, rawInput, lang, cleaned, renormalized, tokens, code, lineResult, progResult>>

\* parseLine(rawInput): the input is taken as an already normalized line
ParseLine ==
    /\ pc = "ready"
    /\ isSingleLine(rawInput)
    /\ cleaned' = rawInput
    /\ tokens' = tokenize(rawInput)
    /\ parsed' = parseLine(rawInput)
    /\ pc' = "parsed"
    /\ UNCHANGED <<grammarVars, programNodes, rawInput, lang, renormalized, code, lineResult, progResult>>

\* generate(parsed.node, target) for the language selected at the call
Generate ==
    /\ pc = "parsed"
    /\ parsed.success
    /\ \E target \in Langs :
          /\ lang' = target
          /\ code' = generate(parsed.node, target)
    /\ pc' = "generated"
    /\ UNCHANGED <<grammarVars, programNodes, rawInput, cleaned, renormalized, tokens, parsed, lineResult, progResult>>

\* translateLine(rawInput, target) for the language selected at the call
TranslateLine ==
    /\ pc = "ready"
    /\ isSingleLine(rawInput)
    /\ \E target \in Langs :
          /\ lang' = target
          /\ lineResult' = translateLine(rawInput, target)
    /\ pc' = "translatedLine"
    /\ UNCHANGED <<grammarVars, programNodes, rawInput, cleaned, renormalized, tokens, parsed, code, progResult>>

\* translateProgram(rawInput, target), as doTranslate calls it with currentLang
TranslateProgram ==
    /\ pc = "ready"
    /\ \E target \in Langs :
          /\ lang' = target
          /\ progResult' = translateProgram(rawInput, target)
    /\ pc' = "translatedProgram"
    /\ UNCHANGED <<grammarVars, programNodes, rawInput, cleaned, renormalized, tokens, parsed, code, lineResult>>

\* the tests' nodes.push(parseLine(line).node) for each normalized line of
\* rawInput, when every line parses
ParseLines ==
    /\ pc = "ready"
    /\ rawInput # ""
    /\ allSucceed(parseAll(split(rawInput, "\n")))
    /\ programNodes' = nodesOf(parseAll(split(rawInput, "\n")))
    /\ pc' = "collected"
    /\ UNCHANGED <<grammarVars, rawInput, lang, cleaned, renormalized, tokens, parsed, code,
                   lineResult, progResult>>

\* generateProgram(programNodes, target) on the collected nodes
GenerateProgram ==
    /\ pc = "collected"
    /\ \E target \in Langs :
          /\ lang' = target
          /\ code' = generateProgram(programNodes, target)
    /\ pc' = "generatedProgram"
    /\ UNCHANGED <<grammarVars, programNodes, rawInput, cleaned, renormalized, tokens, parsed, lineResult,
                   progResult>>

\* node types that no grammar rule produces
ForeignTypes == {"loop", "toString"}

\* generate(node, target) on a node built by the caller, not by the parser
GenerateNode ==
    /\ pc = "ready"
    /\ rawInput = ""
    /\ \E type \in ForeignTypes, target \in Langs :
          /\ programNodes' = <<[type |-> type]>>
          /\ lang' = target
          /\ code' = generate([type |-> type], target)
    /\ pc' = "generatedNode"
    /\ UNCHANGED <<grammarVars, rawInput, cleaned, renormalized, tokens, parsed, lineResult, progResult>>

Next ==
    \/ GenerateNode
    \/ Preprocess
    \/ Renormalize
    \/ Tokenize
    \/ Parse
    \/ ParseLine
    \/ Generate
    \/ TranslateLine
    \/ TranslateProgram
    \/ ParseLines
    \/ GenerateProgram

Spec == Init /\ [][Next]_vars

-----------------------------------------------------------------------------
(* The state machine of improveGrammar: one call, its requests one by one *)

\* lastError = ...; continue: the next model is requested, or the loop is left
\* and the error thrown after it is caught
tryNext(error) ==
    /\ lastError' = Some(error)
    /\ IF attempt < Len(attempts)
       THEN /\ attempt' = attempt + 1
            /\ calls' = Append(calls, attempts[attempt + 1])
            /\ phase' = "fetch"
            /\ UNCHANGED promise
       ELSE /\ phase' = "settled"
            /\ promise' = allModelsFailed(grammarText, error)
            /\ UNCHANGED <<attempt, calls>>

\* the end of an attempt: return from the function, or continue
finish(result) ==
    IF result.kind = "return"
    THEN /\ phase' = "settled"
         /\ promise' = Fulfilled(result.value)
         /\ UNCHANGED <<attempt, lastError, calls>>
    ELSE tryNext(result.error)

\* improveGrammar(text) up to its first await
ImproveGrammar ==
    /\ phase = "idle"
    /\ IF apiKey = ""
       THEN /\ promise' = Fulfilled(keyMissing(grammarText))
            /\ phase' = "settled"
            /\ UNCHANGED <<attempt, calls>>
       ELSE /\ attempt' = 1
            /\ calls' = <<attempts[1]>>
            /\ phase' = "fetch"
            /\ UNCHANGED promise
    /\ UNCHANGED <<translatorVars, apiKey, grammarText, lastError, replies>>

\* await fetch(...) settles
FetchSettles ==
    /\ phase = "fetch"
    /\ \E outcome \in FetchOutcomes :
          /\ replies' = Append(replies, [fetch |-> outcome, body |-> NoReply])
          /\ IF outcome.settled = "fulfilled" /\ outcome.ok
             THEN /\ phase' = "json"
                  /\ UNCHANGED <<attempt, lastError, calls, promise>>
             ELSE tryNext(onFetchFailure(attempts[attempt].model, outcome))
    /\ UNCHANGED <<translatorVars, apiKey, grammarText>>

\* await response.json() settles
JsonSettles ==
    /\ phase = "json"
    /\ \E outcome \in JsonOutcomes :
          /\ replies' = [replies EXCEPT ![Len(replies)].body = outcome]
          /\ finish(onJson(grammarText, attempts[attempt].model, outcome))
    /\ UNCHANGED <<translatorVars, apiKey, grammarText>>

ImproveInit ==
    /\ rawInput = ""
    /\ lang = "python"
    /\ pc = "ready"
    /\ cleaned = ""
    /\ renormalized = ""
    /\ tokens = <<>>
    /\ parsed = NoResult
    /\ code = ""
    /\ lineResult = NoResult
    /\ progResult = NoResult
    /\ programNodes = <<>>
    /\ grammarIdle
    /\ apiKey \in ApiKeys
    /\ grammarText \in Texts

ImproveNext ==
    \/ ImproveGrammar
    \/ FetchSettles
    \/ JsonSettles

ImproveSpec == ImproveInit /\ [][ImproveNext]_vars

TypeOK ==
    /\ lang \in Langs
    /\ pc \in {"ready", "preprocessed", "renormalized", "tokenized", "parsed",
               "generated", "translatedLine", "translatedProgram",
               "collected", "generatedProgram", "generatedNode"}

-----------------------------------------------------------------------------
(* Quantities the properties speak about *)

\* the quoted literals of the raw line, lowercased, in order of appearance
QuotedLiterals ==
    extractLiterals(trim(toLowerCase(rawInput)), 1, [text |-> "", literals |-> <<>>]).literals

\* every literal occurs in text as "<literal>", each after the one before
RECURSIVE appearInOrder(_, _, _)
appearInOrder(text, literals, from) ==
    IF Len(literals) = 0 THEN TRUE
    ELSE LET k == indexOf(text, "\"" \o literals[1] \o "\"", from)
         IN  k > 0 /\ appearInOrder(text, Tail(literals), k + Len(literals[1]) + 2)

\* the lines of the raw text, numbered as the user sees them
RawLineList == split(rawInput, "\n")

\* the lines of the raw text that are not blank, trimmed
NonBlankRaw == SelectSeq(trimLines(RawLineList), nonBlank)

\* what each line that is not blank comes to on its own
LineOutcomes ==
    LET raw == NonBlankRaw IN [i \in 1..Len(raw) |-> parse(tokenize(preprocess(raw[i])))]

ParsingLines == LET outcomes == LineOutcomes IN {i \in 1..Len(outcomes) : outcomes[i].success}

EmptiedLines == LET raw == NonBlankRaw IN {i \in 1..Len(raw) : preprocess(raw[i]) = ""}

ResultNodes == IF has(progResult, "nodes") THEN progResult.nodes ELSE <<>>

LineErrors == SelectSeq(progResult.errors, LAMBDA e : e.line >= 1)

\* the raw line numbers of the lines that fail, with their errors
FailingRawLines ==
    {i \in 1..Len(RawLineList) :
        /\ trim(RawLineList[i]) # ""
        /\ ~parse(tokenize(preprocess(trim(RawLineList[i])))).success}

ExpectedErrors ==
    [k \in 1..Cardinality(FailingRawLines) |->
        [line  |-> Nth(FailingRawLines, k),
         error |-> parse(tokenize(preprocess(trim(RawLineList[Nth(FailingRawLines, k)])))).error]]

\* the node of the rule that matches the tokens, spans not yet parsed
Matched == firstMatch(tokens)

NoRuleMatches == \A r \in 1..Len(GRAMMAR_RULES) : match(GRAMMAR_RULES[r], tokens) = NoMatch

\* the span is captured, not empty, and does not parse
SpanFails(node, spanField) ==
    /\ has(node, spanField)
    /\ Len(node[spanField]) > 0
    /\ ~parse(node[spanField]).success

lastWord(text) == LET ws == split(text, " ") IN ws[Len(ws)]

firstWord(text) == split(text, " ")[1]

-----------------------------------------------------------------------------
(* Properties *)

\* C1: every quoted literal of the raw line is in the output of preprocess
\* again, as "<contents>" and in the original order, and no placeholder
\* such as __STRING_0__ is left.
C1_QuotedLiteralsSurvive ==
    pc = "preprocessed" =>
        /\ appearInOrder(cleaned, QuotedLiterals, 1)
        /\ \A n \in 0..(Len(QuotedLiterals) - 1) : ~contains(cleaned, placeholder(n))

\* C2: the raw line print "Hello World" translates to print("Hello World")
\* for Python and to std::cout << "Hello World" << std::endl; for C++, the
\* literal unchanged and a string, not an identifier.
C2_HelloWorld ==
    (pc = "translatedLine" /\ rawInput = "print \"Hello World\"") =>
        /\ lineResult.success
        /\ lineResult.ast = [type |-> "print", values |-> <<"\"Hello World\"">>]
        /\ lang = "python" => lineResult.code = "print(\"Hello World\")"
        /\ lang = "cpp" => lineResult.code = "std::cout << \"Hello World\" << std::endl;"

\* C3: <op> x and y store in r parses to an arithmetic node with operator op,
\* left x, right y and result r, for every identifier-shaped word r, and
\* add x and y store in result generates result = x + y for Python.
C3_StoreInResult ==
    /\ (pc \in {"parsed", "generated"} /\ rawInput \in ArithmeticLines) =>
          /\ isIdentifierShape(lastWord(rawInput))
          /\ parsed.success
          /\ parsed.node = [type |-> "arithmetic", operator |-> firstWord(rawInput),
                            left |-> "x", right |-> "y",
                            result |-> Some(lastWord(rawInput))]
    /\ (pc = "generated" /\ lang = "python" /\ rawInput = "add x and y store in result") =>
          code = "result = x + y"

\* C4: the example line define function greet do print "Hello!" translates
\* from raw text with success, to a function_def node named greet with no
\* parameters whose body is the parsed print statement.
C4_FunctionExample ==
    /\ (pc = "translatedLine" /\ rawInput = "define function greet do print \"Hello!\"") =>
          /\ lineResult.success
          /\ lineResult.ast.type = "function_def"
          /\ lineResult.ast.name = "greet"
          /\ lineResult.ast.params = <<>>
          /\ has(lineResult.ast, "body")
          /\ lineResult.ast.body.type = "print"
    /\ (pc = "translatedProgram" /\ rawInput = "define function greet do print \"Hello!\"") =>
          /\ progResult.success
          /\ Len(progResult.errors) = 0

\* C5: preprocess is idempotent: preprocess(preprocess(t)) = preprocess(t),
\* also for lines with quoted literals.
C5_Idempotent ==
    pc = "renormalized" => renormalized = cleaned

\* C6 as claimed: a line that is not blank but normalizes to the empty string
\* is dropped, so no line of a program is ever reported as "Empty input".
C6_EmptiedLineDropped ==
    pc = "translatedProgram" =>
        \A k \in 1..Len(progResult.errors) :
            ~(progResult.errors[k].line >= 1 /\ progResult.errors[k].error = "Empty input")

\* C6 amended: a line that is not blank but normalizes to the empty string is
\* kept: it adds exactly one entry to errors, the error "Empty input" under its
\* position among the lines that are not blank, and no node; the nodes are
\* those of the lines that do parse.
C6_EmptiedLineReported ==
    pc = "translatedProgram" =>
        LET emptied == EmptiedLines
            parsing == ParsingLines
            errors  == progResult.errors
        IN  /\ \A i \in emptied :
                  /\ Cardinality({k \in 1..Len(errors) : errors[k].line = i}) = 1
                  /\ \A k \in 1..Len(errors) :
                        errors[k].line = i => errors[k].error = "Empty input"
            /\ Len(ResultNodes) = Cardinality(parsing \ emptied)

C6_Witness ==
    /\ pc = "translatedProgram"
    /\ EmptiedLines # {}
    /\ Len(ResultNodes) >= 1
    /\ \E k \in 1..Len(progResult.errors) : progResult.errors[k].error = "Empty input"

\* C7: every error reported for a line that fails to parse carries the
\* 1-based number of that line in the raw input text, also when blank lines
\* come before it.
C7_RawLineNumbers ==
    (pc = "translatedProgram" /\ Len(NonBlankRaw) > 0) =>
        progResult.errors = ExpectedErrors

\* C8: success is true iff at least one line parsed; a failing line never
\* aborts the translation: every line that is not blank gives exactly one node
\* or exactly one error, the nodes are those of the lines that parse, in input
\* order, and the code is generated from them.
C8_ErrorsAreCollected ==
    pc = "translatedProgram" =>
        LET outcomes == LineOutcomes
            parsing  == {i \in 1..Len(outcomes) : outcomes[i].success}
            nodes    == ResultNodes
            errors   == LineErrors
        IN  /\ progResult.success = (parsing # {})
            /\ Len(nodes) + Len(errors) = Len(outcomes)
            /\ Len(nodes) = Cardinality(parsing)
            /\ \A k \in 1..Len(nodes) : nodes[k] = outcomes[Nth(parsing, k)].node
            /\ \A i \in 1..Len(outcomes) :
                  i \notin parsing =>
                      Cardinality({k \in 1..Len(errors) : errors[k].line = i}) = 1
            /\ progResult.success => progResult.code = generateProgram(nodes, lang)

C8_Witness ==
    /\ pc = "translatedProgram"
    /\ progResult.success
    /\ Len(ResultNodes) >= 2
    /\ Len(LineErrors) >= 1

\* C9: parse reports every failure in its return value: "Empty input" for no
\* tokens; for tokens no rule matches, an error with "Unrecognized command"
\* and the token texts joined by single spaces; otherwise success with a node.
C9_ParseIsTotal ==
    pc = "parsed" =>
        LET noRule == NoRuleMatches
        IN  /\ Len(tokens) = 0 => parsed = [success |-> FALSE, error |-> "Empty input"]
            /\ (Len(tokens) > 0 /\ noRule) =>
                  /\ ~parsed.success
                  /\ ~has(parsed, "node")
                  /\ contains(parsed.error, "Unrecognized command")
                  /\ contains(parsed.error, join(tokenValues(tokens), " "))
            /\ (Len(tokens) > 0 /\ ~noRule) =>
                  /\ parsed.success
                  /\ has(parsed, "node")
                  /\ ~has(parsed, "error")

C9_Witness ==
    /\ pc = "parsed"
    /\ Len(tokens) >= 2
    /\ NoRuleMatches
    /\ ~parsed.success

\* C10: a compound command whose captured span is not empty but does not
\* parse still parses: success is true, the node is the compound node, the
\* body (thenBody, elseBody) is absent and no error is reported.
C10_FailedBodyIsAbsent ==
    (pc = "parsed" /\ Len(tokens) > 0) =>
        LET node == Matched
        IN  node # NoMatch =>
            /\ SpanFails(node, "bodyTokens") =>
                  /\ parsed.success /\ ~has(parsed, "error")
                  /\ parsed.node.type = node.type
                  /\ ~has(parsed.node, "body")
            /\ SpanFails(node, "thenTokens") =>
                  /\ parsed.success /\ ~has(parsed, "error")
                  /\ parsed.node.type = node.type
                  /\ ~has(parsed.node, "thenBody")
            /\ SpanFails(node, "elseTokens") =>
                  /\ parsed.success /\ ~has(parsed, "error")
                  /\ parsed.node.type = node.type
                  /\ ~has(parsed.node, "elseBody")

C10_Witness ==
    /\ pc = "parsed"
    /\ Matched # NoMatch
    /\ Matched.type = "if_statement"
    /\ SpanFails(Matched, "thenTokens")
    /\ parsed.success
    /\ ~has(parsed.node, "thenBody")

-----------------------------------------------------------------------------
(* Properties of the generator *)

CompoundTypes == {"if_statement", "while_loop", "for_loop", "function_def"}

\* a compound node without the body its block is generated from
AbsentBody(node) ==
    /\ node.type \in CompoundTypes
    /\ IF node.type = "if_statement" THEN ~has(node, "thenBody") ELSE ~has(node, "body")

\* the first line of the first block of a generated compound statement
firstBlockLine(text, target) ==
    LET open  == IF target = "python" THEN ":\n" ELSE "{\n"
        start == indexOf(text, open, 1) + Len(open)
        rest  == SubSeq(text, start, Len(text))
        nl    == indexOf(rest, "\n", 1)
    IN  IF nl = 0 THEN rest ELSE SubSeq(rest, 1, nl - 1)

\* the statements that do nothing, per target language
NoOpStatements(target) == IF target = "python" THEN {"pass"} ELSE {";", "{}"}

\* C11: for every compound node whose body is absent and every target
\* language, the generated block is not empty text: it holds a statement that
\* is a no-op of that language.
C11_AbsentBodyIsNoOp ==
    (pc = "generated" /\ AbsentBody(parsed.node)) =>
        trim(firstBlockLine(code, lang)) \in NoOpStatements(lang)

\* the first line of a text
firstLine(text) ==
    LET nl == indexOf(text, "\n", 1) IN IF nl = 0 THEN text ELSE SubSeq(text, 1, nl - 1)

\* what generate gives for each collected node
NodeTexts == [i \in 1..Len(programNodes) |-> generate(programNodes[i], lang)]

\* no node's first line occurs in the text of another node, so that the place
\* of each node in the program can be told
Distinguishable(texts) ==
    \A i, j \in 1..Len(texts) : i # j => ~contains(texts[j], firstLine(texts[i]))

\* the place of each node's first line in the program; 0 when it is not there
PlacesIn(program, texts) ==
    [i \in 1..Len(texts) |-> indexOf(program, firstLine(texts[i]), 1)]

\* C12: in the output of generateProgram, for every target language, the text
\* of every function definition comes before the text of every statement that
\* is not one, and inside each of the two groups the input order is kept.
C12_FunctionsFirst ==
    pc = "generatedProgram" =>
        LET texts == NodeTexts
            at    == PlacesIn(code, texts)
            n     == Len(programNodes)
        IN  Distinguishable(texts) =>
            /\ \A i \in 1..n : at[i] > 0
            /\ \A i, j \in 1..n :
                  (isFunctionDef(programNodes[i]) /\ isNotFunctionDef(programNodes[j]))
                      => at[i] < at[j]
            /\ \A i, j \in 1..n :
                  (i < j /\ isFunctionDef(programNodes[i]) = isFunctionDef(programNodes[j]))
                      => at[i] < at[j]

\* the number of places where pat occurs in text
countOf(text, pat) ==
    Cardinality({k \in 1..(Len(text) - Len(pat) + 1) : SubSeq(text, k, k + Len(pat) - 1) = pat})

\* the directives of the I/O library and of the container library
IoDirectives(target) ==
    CASE target = "java" -> {"import java.util.Scanner;"}
      [] target = "cpp"  -> {"#include <iostream>"}
      [] OTHER           -> {}

ContainerDirectives(target) ==
    CASE target = "java" -> {"import java.util.ArrayList;", "import java.util.Arrays;"}
      [] target = "cpp"  -> {"#include <vector>"}
      [] OTHER           -> {}

\* C13: generateProgram emits each import/include directive at most once, and
\* only when the node list holds a node of a type that needs it: input or
\* print for the I/O library, list creation or append for the container
\* library.
C13_DirectivesOnlyWhenNeeded ==
    pc = "generatedProgram" =>
        /\ \A d \in IoDirectives(lang) \cup ContainerDirectives(lang) : countOf(code, d) <= 1
        /\ \A d \in IoDirectives(lang) :
              contains(code, d) => hasType(programNodes, {"input", "print"})
        /\ \A d \in ContainerDirectives(lang) :
              contains(code, d) => hasType(programNodes, {"list_creation", "append"})

\* the text of code up to its first space
declaredType(text) ==
    LET k == indexOf(text, " ", 1) IN IF k = 0 THEN text ELSE SubSeq(text, 1, k - 1)

\* the type the shape of a value stands for: the lexer's class of the value,
\* an integer number being a NUMBER without a decimal point
ShapeType(value) ==
    IF value = None THEN "auto"
    ELSE LET class == classify(value[1]).type
         IN  CASE class = "STRING"  -> "string"
               [] class = "BOOLEAN" -> "bool"
               [] class = "NUMBER"  -> IF contains(value[1], ".") THEN "double" ELSE "int"
               [] OTHER             -> "auto"

DeclaredTypeOf(shape, target) ==
    CASE shape = "string" -> IF target = "java" THEN "String" ELSE "std::string"
      [] shape = "bool"   -> IF target = "java" THEN "boolean" ELSE "bool"
      [] shape = "auto"   -> IF target = "java" THEN "var" ELSE "auto"
      [] OTHER            -> shape

\* C14: the declared type of a variable in Java and C++ follows the shape of
\* its value: a quoted string gives String / std::string, every value the
\* lexer classifies as an integer number gives int, every decimal number
\* gives double, true/false gives boolean / bool, and an identifier or an
\* absent value gives var / auto.
C14_DeclaredTypeFollowsShape ==
    (pc = "generated" /\ parsed.node.type = "variable_creation" /\ lang \in {"java", "cpp"}) =>
        declaredType(code) = DeclaredTypeOf(ShapeType(parsed.node.value), lang)

\* C15: the documented example `create a variable x equal to 10` translates
\* to the Python line `x = 10`.
C15_DocumentedExample ==
    (pc = "translatedLine" /\ rawInput = "create a variable x equal to 10" /\ lang = "python") =>
        (lineResult.success /\ lineResult.code = "x = 10")

\* C16: for every entry (s, canonical) written in the synonym table,
\* including put -> set and lower -> less, and every word x that is neither a
\* filler word nor a synonym key, preprocess("s x") equals
\* preprocess("canonical x").
C16_SynonymEquivalence ==
    pc = "preprocessed" =>
        \A i \in DOMAIN SYNONYM_ENTRIES : \A x \in PlainWords :
            rawInput = SYNONYM_ENTRIES[i][1] \o " " \o x =>
                cleaned = preprocess(SYNONYM_ENTRIES[i][2] \o " " \o x)

\* the words of a text outside its quoted strings, after the lower-casing
\* and the removal of punctuation that come before the filter
WordsOutsideQuotes(text) ==
    SelectSeq(split(trim(collapseSpaces(stripPunctuation(
                  extractLiterals(trim(toLowerCase(text)), 1,
                                  [text |-> "", literals |-> <<>>]).text))), " "),
              isWord)

countWord(ws, word) == Cardinality({k \in DOMAIN ws : ws[k] = word})

\* C17: outside quoted strings the output of preprocess contains no filler
\* word: a filler word that is not a synonym key is deleted, and a filler
\* word that is also a synonym key is never deleted but kept and rewritten to
\* its canonical keyword (also becomes and).
C17_FillersDeletedOrRewritten ==
    pc = "preprocessed" =>
        LET inWords  == WordsOutsideQuotes(rawInput)
            outWords == WordsOutsideQuotes(cleaned)
        IN  /\ \A k \in DOMAIN outWords : outWords[k] \notin FILLER_WORDS
            /\ Len(outWords) = Cardinality({k \in DOMAIN inWords :
                                               inWords[k] \notin FILLER_WORDS
                                               \/ hasSynonym(inWords[k])})
            /\ \A w \in FILLER_WORDS :
                  hasSynonym(w) =>
                      countWord(outWords, SYNONYMS(w)) >= countWord(inWords, w)

\* a filler word that is no synonym key and one that is, in one input
C17_Witness ==
    /\ pc = "preprocessed"
    /\ countWord(WordsOutsideQuotes(rawInput), "please") > 0
    /\ countWord(WordsOutsideQuotes(rawInput), "also") > 0
    /\ WordsOutsideQuotes(cleaned) = <<"and">>

\* C18: for every node that parse can return and every target language,
\* generate returns a non-empty string and does not throw; for a node whose
\* type is not in the generator table it returns a placeholder comment that
\* names the type.
C18_GenerateIsTotal ==
    /\ pc = "generated" => code # ""
    /\ pc = "generatedNode" =>
          code = "/* Unsupported node type: " \o programNodes[1].type \o " */"

\* the order in which the rules are tried
PriorityOrder == <<
    "comment", "list_creation", "append", "function_def", "function_call",
    "return", "for_loop", "while_loop", "if_statement", "arithmetic",
    "increment", "decrement", "input", "variable_creation", "assignment", "print" >>

\* the fields a rule hands over as tokens, which parse replaces by nodes
SpanFields == {"bodyTokens", "thenTokens", "elseTokens"}

\* C19: for every token sequence, parse returns the node of the earliest
\* rule that matches in the fixed order comment, list-creation, append,
\* function-definition, function-call, return, for, while, if, arithmetic,
\* increment, decrement, input, variable-creation, assignment, print; a later
\* rule's node is never returned when an earlier rule matches.
C19_EarliestRuleWins ==
    pc = "parsed" =>
        LET matching == {r \in DOMAIN PriorityOrder :
                            match(PriorityOrder[r], tokens) # NoMatch}
        IN  IF matching = {} THEN ~parsed.success
            ELSE LET earliest == match(PriorityOrder[Min(matching)], tokens)
                 IN  /\ parsed.success
                     /\ parsed.node.type = PriorityOrder[Min(matching)]
                     /\ \A f \in DOMAIN earliest \ SpanFields :
                           has(parsed.node, f) /\ parsed.node[f] = earliest[f]

\* the last rule of the order matched after every earlier rule was tried
C19_Witness ==
    /\ pc = "parsed"
    /\ parsed.success
    /\ parsed.node.type = "print"
    /\ \A r \in 1..15 : match(PriorityOrder[r], tokens) = NoMatch

\* the index of the first token after the condition of an if line and its
\* optional then
ThenStart(toks) == skipKw(toks, parseCondition(toks, 1).nextIndex, "then")

\* the indices of the else keywords at or after the then-span's start
ElseIndices(toks) ==
    {k \in ThenStart(toks)..(Len(toks) - 1) : isKw(At(toks, k), "else")}

ThenSpan(toks) ==
    IF ElseIndices(toks) = {} THEN sliceFrom(toks, ThenStart(toks))
    ELSE slice(toks, ThenStart(toks), Min(ElseIndices(toks)))

ElseSpan(toks) ==
    IF ElseIndices(toks) = {} THEN <<>>
    ELSE sliceFrom(toks, Min(ElseIndices(toks)) + 1)

\* the branch of node named field is what parse makes of span: the node of
\* the span when it parses, no branch otherwise
BranchIs(node, field, span) ==
    IF Len(span) > 0 /\ parse(span).success
    THEN has(node, field) /\ node[field] = parse(span).node
    ELSE ~has(node, field)

ExampleIf == "if age greater than 17 then print \"Adult\" else print \"Minor\""

NestedIf == "if x greater than 5 then if y less than 3 then print a else print b"

\* C20: the line `if age greater than 17 then print "Adult" else print
\* "Minor"` parses to an if node with condition operator "greater", a
\* non-empty thenBody and a non-empty elseBody; in general the then-span is
\* the tokens between the condition (and an optional then) and the first else
\* keyword, the else-span is everything after that else, and without an else
\* the node has no else branch, so in `if c1 then if c2 then A else B` the
\* else branch belongs to the outer if.
C20_ElseSplitsAtFirstElse ==
    (pc = "parsed" /\ parsed.success /\ parsed.node.type = "if_statement") =>
        LET node == parsed.node
        IN  /\ BranchIs(node, "thenBody", ThenSpan(tokens))
            /\ BranchIs(node, "elseBody", ElseSpan(tokens))
            /\ ElseIndices(tokens) = {} => ~has(node, "elseBody")
            /\ rawInput = ExampleIf =>
                  /\ node.condition.operator = "greater"
                  /\ has(node, "thenBody") /\ node.thenBody.type = "print"
                  /\ has(node, "elseBody") /\ node.elseBody.type = "print"
            /\ rawInput = NestedIf =>
                  /\ has(node, "elseBody") /\ node.elseBody.type = "print"
                  /\ has(node, "thenBody") /\ node.thenBody.type = "if_statement"
                  /\ ~has(node.thenBody, "elseBody")

\* the nested line is parsed: the outer if holds the else branch
C20_Witness ==
    /\ pc = "parsed"
    /\ rawInput = NestedIf
    /\ parsed.success
    /\ parsed.node.type = "if_statement"
    /\ has(parsed.node, "elseBody")

-----------------------------------------------------------------------------
(* Properties of the rules and of the tokenizer *)

\* the tokens of a for line between the loop variable and the first do
ForHeader(toks) ==
    LET dos == {k \in 2..(Len(toks) - 1) : isKw(At(toks, k), "do")}
    IN  IF dos = {} THEN sliceFrom(toks, 2) ELSE slice(toks, 2, Min(dos))

RangeKeywords == {"from", "to", "by"}

\* the header is a sequence of pairs keyword value, no keyword twice
PairsOnly(header) ==
    /\ Len(header) % 2 = 0
    /\ \A p \in 1..Len(header) :
          IF p % 2 = 1
          THEN header[p].type = "KEYWORD" /\ header[p].value \in RangeKeywords
          ELSE isValue(header[p])
    /\ \A p, q \in 1..Len(header) :
          (p % 2 = 1 /\ q % 2 = 1 /\ p # q) => header[p].value # header[q].value

Names(header) == {header[p].value : p \in {q \in 1..Len(header) : q % 2 = 1}}

\* the value right after keyword kw
ValueAfter(header, kw) ==
    val(header[(CHOOSE p \in 1..Len(header) : p % 2 = 1 /\ header[p].value = kw) + 1])

ForExample == "for i from 1 to 11 do print i"

\* every line of text but the first
RestLines(text) == Tail(split(text, "\n"))

\* the lines of inner, each one level deeper
OneLevelDeeper(inner) ==
    [k \in 1..Len(split(inner, "\n")) |-> "    " \o split(inner, "\n")[k]]

\* C21: the line `for i from 1 to 11 do print i` generates, for Python,
\* `for i in range(1, 11):` followed by the body `print(i)` indented by four
\* spaces; a for node takes the value right after from, to and by in whatever
\* order they appear before do, fails to match when from or to is missing,
\* uses step 1 when by is absent, and each further nesting level adds one
\* more level of indentation to the body.
C21_ForLoop ==
    /\ (pc \in {"parsed", "generated"} /\ Len(tokens) >= 6 /\ isKw(At(tokens, 0), "for")
        /\ isId(At(tokens, 1)) /\ PairsOnly(ForHeader(tokens))) =>
          LET header == ForHeader(tokens)
          IN  IF {"from", "to"} \subseteq Names(header)
              THEN /\ parsed.success
                   /\ parsed.node.type = "for_loop"
                   /\ parsed.node.from = ValueAfter(header, "from")
                   /\ parsed.node.to = ValueAfter(header, "to")
                   /\ parsed.node.step = IF "by" \in Names(header)
                                         THEN Some(ValueAfter(header, "by")) ELSE None
              ELSE ~parsed.success
    /\ (pc = "generated" /\ parsed.node.type = "for_loop") =>
          LET node == parsed.node
              step == IF node.step = None THEN "1" ELSE node.step[1]
          IN  /\ (lang = "python" /\ rawInput = ForExample) =>
                    code = "for i in range(1, 11):\n    print(i)"
              /\ (lang = "python" /\ step = "1") =>
                    firstLine(code) = "for " \o node.variable \o " in range(" \o node.from
                                      \o ", " \o node.to \o "):"
              /\ (lang # "python") =>
                    firstLine(code) = "for (int " \o node.variable \o " = " \o node.from
                                      \o "; " \o node.variable \o " < " \o node.to \o "; "
                                      \o node.variable \o " += " \o step \o ") {"
              /\ has(node, "body") =>
                    RestLines(code) =
                        OneLevelDeeper(generate(node.body, lang))
                        \o (IF lang = "python" THEN <<>> ELSE <<"}">>)

\* three nested loops: the innermost body is three levels deep
C21_Witness ==
    /\ pc = "generated"
    /\ lang = "python"
    /\ code = "for i in range(1, 3):\n    for j in range(1, 3):\n"
              \o "        for k in range(1, 3):\n            print(k)"

VariableExample == "create variable x value 10"

\* the example line with its value left out, with and without the keyword
ValueLeftOut == {"create variable x", "create variable x value"}

\* C22: the line `create variable x value 10` parses to a variable_creation
\* node with name "x" and value "10" and generates `x = 10` for Python and
\* `int x = 10;` for Java and C++; when the value is left out the line still
\* parses, with a null value that the generator renders as the language's
\* default instead of failing.
C22_VariableCreation ==
    /\ (pc \in {"parsed", "generated"} /\ cleaned = VariableExample) =>
          /\ parsed.success
          /\ parsed.node = [type |-> "variable_creation", name |-> "x", value |-> Some("10")]
    /\ (pc = "generated" /\ cleaned = VariableExample) =>
          code = (IF lang = "python" THEN "x = 10" ELSE "int x = 10;")
    /\ (pc \in {"parsed", "generated"} /\ cleaned \in ValueLeftOut) =>
          /\ parsed.success
          /\ parsed.node = [type |-> "variable_creation", name |-> "x", value |-> None]
    /\ (pc = "generated" /\ cleaned \in ValueLeftOut) =>
          code = (IF lang = "python" THEN "x = None" ELSE "int x = 0;")
    /\ (pc = "translatedLine" /\ rawInput \in ValueLeftOut \cup {VariableExample}) =>
          lineResult.success

\* the line without a value went through the generator
C22_Witness ==
    /\ pc = "generated"
    /\ cleaned = "create variable x value"
    /\ lang = "cpp"
    /\ code = "int x = 0;"

\* a word that opens and closes with the same quote character
QuotedSpan(word) ==
    /\ Len(word) >= 2
    /\ isQuote(Head(word))
    /\ Ch(word, Len(word)) = Head(word)

\* optional minus, digits, optional decimal part
NumberShape(word) ==
    LET body  == IF word # "" /\ Head(word) = "-" THEN Tail(word) ELSE word
        parts == split(body, ".")
    IN  /\ Len(parts) \in {1, 2}
        /\ \A p \in 1..Len(parts) :
              parts[p] # "" /\ \A i \in 1..Len(parts[p]) : isDigit(Ch(parts[p], i))

\* a letter or an underscore, then letters, digits and underscores
IdentifierShape(word) ==
    /\ word # ""
    /\ \A i \in 1..Len(word) :
          \/ Ch(word, i) = "_"
          \/ isAlpha(Ch(word, i))
          \/ (i > 1 /\ isDigit(Ch(word, i)))

\* the token of a word: the first class that fits
TokenOf(word) ==
    IF QuotedSpan(word) THEN [type |-> "STRING", value |-> SubSeq(word, 2, Len(word) - 1)]
    ELSE IF NumberShape(word) THEN [type |-> "NUMBER", value |-> word]
    ELSE IF word \in {"true", "false"} THEN [type |-> "BOOLEAN", value |-> word]
    ELSE IF word \in KEYWORDS THEN [type |-> "KEYWORD", value |-> word]
    ELSE IF IdentifierShape(word) THEN [type |-> "IDENTIFIER", value |-> word]
    ELSE [type |-> "UNKNOWN", value |-> word]

TokensOf(ws) == [k \in 1..Len(ws) |-> TokenOf(ws[k])]

\* word lists with quoted spans: each span is one word
QuotedCases ==
    UNION {[1..n -> RawWords] : n \in 0..MaxWords}
    \cup {<<"print", "\"Hello World\"">>, <<"print", "\"hello world\"">>,
          <<"print", "'a b'", "true", "false", "-5", "1.5", "x_1", "9x", "_y", "-">>,
          <<"create", "variable", "x", "value", "\"hi\"">>,
          <<"define", "function", "greet", "do", "print", "\"Hello!\"">>,
          <<"if", "age", "greater", "than", "17", "then", "print", "\"Adult\"",
            "else", "print", "\"Minor\"">>}

hasQuote(text) == \E i \in 1..Len(text) : isQuote(Ch(text, i))

\* C23: tokenize classifies every word by the first class that fits, in this
\* order: quoted span -> string token holding the contents without quotes;
\* optional minus, digits, optional decimal part -> number token; true /
\* false -> boolean token (never keyword); member of the Keyword Set ->
\* keyword token; identifier shape -> identifier token; otherwise unknown. A
\* quoted span with inner spaces is one token, the token count equals the
\* number of words with each quoted span counted once, and empty input gives
\* an empty sequence.
C23_TokenClasses ==
    pc \in {"tokenized", "parsed"} =>
        /\ cleaned = "" => tokens = <<>>
        /\ ~hasQuote(cleaned) =>
              tokens = TokensOf(SelectSeq(split(cleaned, " "), isWord))
        /\ hasQuote(cleaned) =>
              \A ws \in QuotedCases : cleaned = join(ws, " ") => tokens = TokensOf(ws)

\* a quoted span with an inner space, a boolean and a negative number in one
\* line
C23_Witness ==
    /\ pc = "parsed"
    /\ Len(tokens) = 10
    /\ tokens[2] = [type |-> "STRING", value |-> "a b"]
    /\ tokens[3] = [type |-> "BOOLEAN", value |-> "true"]
    /\ tokens[5] = [type |-> "NUMBER", value |-> "-5"]
    /\ tokens[8].type = "UNKNOWN"

\* the token spans that the rule matching toks hands to parse
SpansOf(toks) ==
    LET node == firstMatch(toks)
    IN  IF node = NoMatch THEN {}
        ELSE {node[f] : f \in DOMAIN node \cap SpanFields}

\* every span parse is called on is shorter than the sequence it was cut from
RECURSIVE SpansShrink(_)
SpansShrink(toks) ==
    \A span \in SpansOf(toks) :
        /\ Len(span) < Len(toks)
        /\ Len(span) > 0 => SpansShrink(span)

\* the number of nested calls of parse that toks leads to
RECURSIVE Depth(_)
Depth(toks) ==
    LET spans == {span \in SpansOf(toks) : Len(span) > 0}
    IN  IF spans = {} THEN 1
        ELSE 1 + Max({Depth(span) : span \in spans})

RECURSIVE sumOf(_)
sumOf(numbers) == IF Len(numbers) = 0 THEN 0 ELSE Head(numbers) + sumOf(Tail(numbers))

\* C24: parse terminates on every finite token sequence: every recursive call
\* is made on a body span that is strictly shorter than the sequence being
\* parsed, so the recursion depth is bounded by the token count, and
\* translateProgram finishes after handling each line exactly once.
C24_ParseTerminates ==
    /\ pc = "parsed" =>
          /\ SpansShrink(tokens)
          /\ Len(tokens) > 0 => Depth(tokens) <= Len(tokens)
    /\ (pc = "translatedProgram" /\ has(progResult, "totalTokens")) =>
          LET lines == preprocessLines(rawInput)
          IN  /\ Len(ResultNodes) + Len(progResult.errors) = Len(lines)
              /\ progResult.totalTokens =
                    sumOf([i \in 1..Len(lines) |-> Len(tokenize(lines[i]))])

\* three loops inside one another: four nested calls of parse
C24_Witness ==
    /\ pc = "parsed"
    /\ parsed.success
    /\ Depth(tokens) = 4

\* op a b or op a and b, whatever follows
ArithmeticShape(toks) ==
    /\ Len(toks) >= 3
    /\ At(toks, 0).type = "KEYWORD" /\ At(toks, 0).value \in ARITHMETIC_KEYWORDS
    /\ isValue(At(toks, 1))
    /\ \/ isValue(At(toks, 2))
       \/ (isKw(At(toks, 2), "and") /\ isValue(At(toks, 3)))

\* the first value token after a
FirstAfterLeft(toks) == IF isValue(At(toks, 2)) THEN At(toks, 2) ELSE At(toks, 3)

\* C25: for every arithmetic keyword op and value tokens a and b, both
\* `op a b` (no connective) and `op a and b` parse to an arithmetic node with
\* left = a and right = b, and when more value tokens or further
\* `and <value>` pairs follow, right stays the first value token after a.
C25_ArithmeticOperands ==
    (pc = "parsed" /\ ArithmeticShape(tokens)) =>
        /\ parsed.success
        /\ parsed.node.type = "arithmetic"
        /\ parsed.node.left = val(At(tokens, 1))
        /\ parsed.node.right = val(FirstAfterLeft(tokens))

\* the node types with a position for a value
ValueBearing == {
    "variable_creation", "assignment", "print", "return", "list_creation",
    "function_call", "append", "arithmetic", "if_statement", "while_loop", "for_loop" }

hasBoolean(toks) == \E k \in 1..Len(toks) : toks[k].type = "BOOLEAN"

\* C26: in generated Python every boolean literal taken from the input is
\* spelled True / False (and true / false in Java and C++), in every position
\* where a value can appear: variable and assignment values, print arguments
\* and return values, and also list elements, call arguments, append values,
\* arithmetic operands, condition operands and loop bounds.
C26_BooleanSpelling ==
    (pc = "generated" /\ parsed.node.type \in ValueBearing /\ hasBoolean(tokens)) =>
        IF lang = "python"
        THEN ~contains(code, "true") /\ ~contains(code, "false")
        ELSE ~contains(code, "True") /\ ~contains(code, "False")

BodyFields == {"body", "thenBody", "elseBody"}

\* neither node nor a node nested in it holds a token span
RECURSIVE NoSpanFields(_)
NoSpanFields(node) ==
    /\ DOMAIN node \cap SpanFields = {}
    /\ \A f \in DOMAIN node \cap BodyFields : NoSpanFields(node[f])

\* C27: every node that parse returns, and every node nested in its body /
\* thenBody / elseBody, carries only the fields of its variant and none of
\* the raw token-span fields bodyTokens, thenTokens, elseTokens: each
\* captured span, empty or not, is either replaced by a parsed child node or
\* removed.
C27_NoSpanFields ==
    (pc = "parsed" /\ parsed.success) => NoSpanFields(parsed.node)

\* the rules whose matcher returns a node for toks
MatchingRules(toks) ==
    {r \in DOMAIN GRAMMAR_RULES : match(GRAMMAR_RULES[r], toks) # NoMatch}

\* C28: the grammar rules are mutually exclusive: for every token sequence at
\* most one of the sixteen matchers returns a node (in particular a sequence
\* starting with `create list` is never matched by variable-creation), so the
\* result of parse does not depend on the order of the rule list.
C28_RulesAreExclusive ==
    pc \in {"tokenized", "parsed"} =>
        /\ Len(GRAMMAR_RULES) = 16
        /\ Cardinality(MatchingRules(tokens)) <= 1
        /\ (isKw(At(tokens, 0), "create") /\ isKw(At(tokens, 1), "list")) =>
              match("variable_creation", tokens) = NoMatch
        /\ \A r \in MatchingRules(tokens) :
              match(GRAMMAR_RULES[r], tokens) = firstMatch(tokens)

\* a line starting with create list, matched by the list rule alone
C28_Witness ==
    /\ pc = "parsed"
    /\ isKw(At(tokens, 0), "create") /\ isKw(At(tokens, 1), "list")
    /\ MatchingRules(tokens) = {2}
    /\ parsed.success /\ parsed.node.type = "list_creation"

\* C29: whenever the Java program produced by generateProgram contains a
\* scanner.nextLine() statement, from an input node at any nesting depth (top
\* level or inside the body of an if, while, for or function definition), it
\* also contains the import java.util.Scanner; line and the declaration
\* Scanner scanner = new Scanner(System.in);.
C29_ScannerDeclaredWhenUsed ==
    (pc = "generatedProgram" /\ lang = "java" /\ contains(code, "scanner.nextLine()")) =>
        /\ contains(code, "import java.util.Scanner;")
        /\ contains(code, "Scanner scanner = new Scanner(System.in);")

\* the models named by the requests sent so far
ModelsCalled == [i \in 1..Len(calls) |-> calls[i].model]

\* a request failed: the fetch threw or gave an HTTP error, reading the body
\* threw, the candidate text is empty, or handling the answer threw (the
\* answer is the JSON value null)
Failed(reply) ==
    \/ reply.fetch.settled = "rejected"
    \/ ~reply.fetch.ok
    \/ reply.body.settled = "rejected"
    \/ /\ reply.body.settled = "fulfilled"
       /\ \/ responseTextOf(reply.body.data) = ""
          \/ trim(responseTextOf(reply.body.data)) = "null"

\* the corrections array of the answer of a request that did not fail
CorrectionsOf(reply) ==
    correctionsIn(parseAnswer(stripFences(trim(responseTextOf(reply.body.data)))).fields)

\* the resolved value is the failure value: success false, the text unchanged
IsFailureValue(value) ==
    ~value.success /\ value.original = grammarText /\ value.improved = grammarText

\* the resolved value reports the answer of reply
IsAnswerOf(value, reply) ==
    /\ value.success /\ value.original = grammarText
    /\ value.corrections_count = Len(CorrectionsOf(reply))
    /\ Len(value.corrections) <= 10
    /\ Len(value.corrections) = Min({10, Len(CorrectionsOf(reply))})
    /\ \A i \in 1..Len(value.corrections) : value.corrections[i] = CorrectionsOf(reply)[i]

====
